---- MODULE Spec2Model ----
(***************************************************************************)
(* Model of the npm-scripts extension (multi-root revision): directory set *)
(* resolution, command catalog, selection and dispatch of npm commands.    *)
(*                                                                         *)
(* A JavaScript string is a sequence of tokens (a token is a run of        *)
(* characters without inner structure, a path separator or a blank), so    *)
(* that substring, join, quoting and the white space test are computed.    *)
(***************************************************************************)
EXTENDS Integers, Sequences, FiniteSets, TLC

VARIABLES
    workspaceFolders,   \* workspace.workspaceFolders: <<>> (undefined) or <<list of folders>>
    fileSystem,         \* which set of package.json files is on disk
    runSilentSetting,   \* npm.runSilent
    lastScript,         \* <<>> (null) or <<Script>>
    quickPick,          \* <<>> or <<scriptList>>: the pending window.showQuickPick
    pendingSaves,       \* runNpmCommand calls whose workspace.saveAll() has not resolved
    runInTerminalSetting, \* npm.runInTerminal
    terminal,           \* 0 (null) or the terminal 'npm' that is held
    npmTerminals,       \* history: "open" or "closed" for each terminal that
                        \* window.createTerminal('npm') returned, in the order of creation
    runningProcesses,   \* pid -> command line of the child processes
    processPick,        \* <<>> or <<the process items of terminateScript's quick pick>>
    liveProcesses,      \* history: pid -> command line given to cp.exec, of the child
                        \* processes of the operating system that have not exited
    document,           \* the package.json open in the editor: its top-level properties
    savedManifest,      \* the package.json on disk
    nodeModules,        \* the modules installed under node_modules
    validating,         \* doValidate calls that wait for the installed-module report
    diagnostics,        \* diagnosticCollection: the diagnostics of the package.json
    isClosed,           \* document.isClosed: the editor of the package.json was closed
    delayer,            \* the ThrottledDelayer of validateDocument: "idle" or "scheduled"
    validationEnabled,  \* npm.validate.enable as loadConfiguration read it
    lastScriptRun,      \* history: <<>> or <<the latest run-script call of runNpmCommand>>
    catalog,            \* history: the descriptions behind the entries of quickPick
    ev                  \* history: what the last handler did

vars == <<workspaceFolders, fileSystem, runSilentSetting, lastScript, quickPick, pendingSaves,
          runInTerminalSetting, terminal, npmTerminals, runningProcesses, processPick,
          liveProcesses,
          document, savedManifest, nodeModules, validating, diagnostics, isClosed,
          delayer, validationEnabled, lastScriptRun, catalog, ev>>

----------------------------------------------------------------------------
(* Bounds *)

MaxPending == 1   \* calls waiting for workspace.saveAll(), beyond one batch
MaxProcs == 2     \* live child processes
MaxPasses == 2    \* doValidate calls waiting for their report
MaxTerminals == 2 \* terminals created by window.createTerminal('npm')

----------------------------------------------------------------------------
(* Strings *)

SEP == "/"
BLANK == " "
EmptyStr == <<>>
UndefinedStr == <<"<undefined>">>

\* JavaScript truthiness of a string | undefined
Truthy(s) == s # UndefinedStr /\ s # EmptyStr

Last(s) == s[Len(s)]
Front(s) == SubSeq(s, 1, Len(s) - 1)

\* String.prototype.substring(start) with a 0-based start
substring(s, start) == IF start >= Len(s) THEN EmptyStr ELSE SubSeq(s, start + 1, Len(s))

\* /\s/g.test(script)
hasWhiteSpace(s) == \E i \in 1..Len(s) : s[i] = BLANK

startsWith(s, p) == Len(p) <= Len(s) /\ SubSeq(s, 1, Len(p)) = p

----------------------------------------------------------------------------
(* Paths (posix) *)

RECURSIVE splitPath(_)
\* the segments of a path, empty segments included
splitPath(p) ==
    IF p = EmptyStr THEN <<EmptyStr>>
    ELSE LET rest == splitPath(Front(p))
         IN  IF Last(p) = SEP
             THEN Append(rest, EmptyStr)
             ELSE [rest EXCEPT ![Len(rest)] = Append(rest[Len(rest)], Last(p))]

RECURSIVE normalizeSegments(_, _, _)
\* resolves "." and ".." and drops empty segments; acc is the result so far
normalizeSegments(segs, acc, isAbsolute) ==
    IF segs = <<>> THEN acc
    ELSE LET s == Head(segs)
             acc2 == IF s = EmptyStr \/ s = <<".">> THEN acc
                     ELSE IF s = <<"..">>
                          THEN IF acc # <<>> /\ Last(acc) # <<"..">> THEN Front(acc)
                               ELSE IF isAbsolute THEN acc ELSE Append(acc, s)
                          ELSE Append(acc, s)
         IN  normalizeSegments(Tail(segs), acc2, isAbsolute)

RECURSIVE joinSegments(_)
joinSegments(segs) ==
    IF segs = <<>> THEN EmptyStr
    ELSE IF Len(segs) = 1 THEN segs[1]
    ELSE segs[1] \o <<SEP>> \o joinSegments(Tail(segs))

\* path.normalize
pathNormalize(p) ==
    IF p = EmptyStr THEN <<".">>
    ELSE LET isAbsolute == p[1] = SEP
             trailing == Last(p) = SEP
             body == joinSegments(normalizeSegments(splitPath(p), <<>>, isAbsolute))
         IN  IF body = EmptyStr
             THEN IF isAbsolute THEN <<SEP>> ELSE IF trailing THEN <<".", SEP>> ELSE <<".">>
             ELSE (IF isAbsolute THEN <<SEP>> ELSE EmptyStr) \o body
                  \o (IF trailing THEN <<SEP>> ELSE EmptyStr)

\* path.join(a, b)
pathJoin(a, b) ==
    LET joined == IF a = EmptyStr THEN b
                  ELSE IF b = EmptyStr THEN a
                  ELSE a \o <<SEP>> \o b
    IN  pathNormalize(joined)

RECURSIVE lastSepIndex(_)
lastSepIndex(p) ==
    IF p = EmptyStr THEN 0
    ELSE IF Last(p) = SEP THEN Len(p)
    ELSE lastSepIndex(Front(p))

\* path.dirname, for a path without trailing separator
pathDirname(p) ==
    LET i == lastSepIndex(p)
    IN  IF i = 0 THEN <<".">>
        ELSE IF i = 1 THEN <<SEP>>
        ELSE SubSeq(p, 1, i - 1)

----------------------------------------------------------------------------
(* The workspace and the configuration (host state read by the extension) *)

RootA == <<SEP, "a">>
RootB == <<SEP, "b">>
F1 == <<"f1">>
F2 == <<"f2">>
Dot == <<".">>

\* values of npm.useRootDirectory; the setting may also be unset
UseRootValues == {"true", "false", "undefined"}

FolderA(scheme, useRoot, include) ==
    [name |-> <<"a">>, fsPath |-> RootA, scheme |-> scheme,
     useRootDirectory |-> useRoot, includeDirectories |-> include]

FolderB(scheme, useRoot, include) ==
    [name |-> <<"b">>, fsPath |-> RootB, scheme |-> scheme,
     useRootDirectory |-> useRoot, includeDirectories |-> include]

\* workspace.workspaceFolders: undefined, or one or two folders
Workspaces ==
    {<<>>}
    \cup { <<<<FolderA(s, u, <<>>)>>>> : s \in {"file", "vscode-vfs"}, u \in UseRootValues }
    \cup { <<<<FolderA("file", u, <<F1, F2>>)>>>> : u \in {"false", "undefined"} }
    \cup { <<<<FolderA("file", "true", <<Dot>>)>>>>,
            <<<<FolderA("file", "true", <<>>), FolderB("file", "true", <<>>)>>>>,
            <<<<FolderA("vscode-vfs", "undefined", <<F1, F2>>),
                FolderB("file", "false", <<F2, F1>>)>>>>,
            <<<<FolderA("file", "false", <<F1>>), FolderB("vscode-vfs", "true", <<F1>>)>>>> }

\* package.json of a directory: unreadable, not JSON, or an object with or
\* without a scripts property (an ordered list of key and body)
NoFile == [status |-> "ENOENT"]
BadJson == [status |-> "malformed"]
Json(hasScripts, scripts) == [status |-> "ok", hasScripts |-> hasScripts, scripts |-> scripts]
ScriptEntry(key, body) == [key |-> key, body |-> body]

Test == <<"test">>
MyScript == <<"my", BLANK, "script">>
Shell1 == <<"f1-shell">>
Shell2 == <<"f2-shell">>

FileSystems == {"fixture", "mixed"}

\* fs.readFileSync(path.join(dir, 'package.json')) followed by JSON.parse
packageJson(fs, dir) ==
    IF fs = "fixture"
    THEN CASE dir = pathJoin(RootA, F1) ->
                Json(TRUE, <<ScriptEntry(Test, <<"tag">>), ScriptEntry(Shell1, <<"shell">>)>>)
           [] dir = pathJoin(RootA, F2) ->
                Json(TRUE, <<ScriptEntry(Test, <<"node-version">>), ScriptEntry(Shell2, <<"shell">>)>>)
           [] dir = RootB -> Json(TRUE, <<ScriptEntry(Test, <<"tag">>)>>)
           [] OTHER -> NoFile
    ELSE CASE dir = RootA ->
                Json(TRUE, <<ScriptEntry(MyScript, <<"echo">>)>>)
           [] dir = pathJoin(RootA, F1) -> BadJson
           [] dir = pathJoin(RootA, F2) -> Json(TRUE, <<ScriptEntry(Test, <<"tag">>)>>)
           [] dir = RootB -> Json(FALSE, <<>>)
           [] dir = pathJoin(RootB, F1) -> Json(TRUE, <<>>)
           [] OTHER -> NoFile

----------------------------------------------------------------------------
(* Directory set *)

\* variant: the root is included only when the setting is exactly true
getIncludedDirectories_onlyTrue(folder) ==
    LET dirs0 == IF folder.useRootDirectory = "true" THEN <<folder.fsPath>> ELSE <<>>
        inc == folder.includeDirectories
    IN  IF Len(inc) > 0
        THEN dirs0 \o [i \in 1..Len(inc) |-> pathJoin(folder.fsPath, inc[i])]
        ELSE dirs0

\* getIncludedDirectories(workspaceRoot)
getIncludedDirectories(folder) ==
    LET dirs0 == IF folder.useRootDirectory # "false" THEN <<folder.fsPath>> ELSE <<>>
        inc == folder.includeDirectories
    IN  IF Len(inc) > 0
        THEN dirs0 \o [i \in 1..Len(inc) |-> pathJoin(folder.fsPath, inc[i])]
        ELSE dirs0

RECURSIVE includedFrom(_, _)
\* the loop of getAllIncludedDirectories from folder i on
includedFrom(folders, i) ==
    IF i > Len(folders) THEN <<>>
    ELSE (IF folders[i].scheme = "file" THEN getIncludedDirectories(folders[i]) ELSE <<>>)
         \o includedFrom(folders, i + 1)

\* getAllIncludedDirectories()
getAllIncludedDirectories(wf) ==
    IF wf = <<>> THEN <<>> ELSE includedFrom(wf[1], 1)

\* isMultiRoot()
isMultiRoot(wf) ==
    IF wf # <<>> THEN Len(wf[1]) > 1 ELSE FALSE

\* workspace.getWorkspaceFolder(Uri.file(p)): <<>> or <<the folder that contains p>>
getWorkspaceFolder(wf, p) ==
    LET folders == IF wf = <<>> THEN <<>> ELSE wf[1]
        holds(i) == /\ folders[i].scheme = "file"
                    /\ \/ p = folders[i].fsPath
                       \/ startsWith(p, folders[i].fsPath \o <<SEP>>)
        found == { i \in 1..Len(folders) : holds(i) }
    IN  IF found = {} THEN <<>>
        ELSE <<folders[CHOOSE i \in found :
                         \A j \in found : Len(folders[j].fsPath) <= Len(folders[i].fsPath)]>>

----------------------------------------------------------------------------
(* Command catalog *)

RUN_SCRIPT == <<"run-script">>

Description(absolutePath, relativePath, name, cmd) ==
    [absolutePath |-> absolutePath, relativePath |-> relativePath, name |-> name, cmd |-> cmd]

RECURSIVE scriptDescriptions_noFilter(_, _, _, _, _)
\* variant: the script name of the request is ignored
scriptDescriptions_noFilter(scripts, i, param, absolutePath, relativePath) ==
    IF i > Len(scripts) THEN <<>>
    ELSE <<Description(absolutePath, relativePath, scripts[i].key,
                       param[1] \o <<BLANK>> \o scripts[i].body)>>
         \o scriptDescriptions_noFilter(scripts, i + 1, param, absolutePath, relativePath)

RECURSIVE scriptDescriptions(_, _, _, _, _)
\* Object.keys(jsonScripts).forEach(...) from key i on
scriptDescriptions(scripts, i, param, absolutePath, relativePath) ==
    IF i > Len(scripts) THEN <<>>
    ELSE LET name == IF Len(param) >= 2 THEN param[2] ELSE UndefinedStr
             key == scripts[i].key
             rest == scriptDescriptions(scripts, i + 1, param, absolutePath, relativePath)
         IN  IF ~Truthy(name) \/ key = name
             THEN <<Description(absolutePath, relativePath, key,
                                param[1] \o <<BLANK>> \o scripts[i].body)>> \o rest
             ELSE rest

\* variant: a directory whose package.json gives no scripts still adds an entry
commandDescriptionsInPackage_alwaysEntry(wf, fs, param, packagePath) ==
    LET absolutePath == packagePath
        workspaceFolder == getWorkspaceFolder(wf, absolutePath)
        relativePath == IF workspaceFolder # <<>>
                        THEN substring(absolutePath, Len(workspaceFolder[1].fsPath) + 1)
                        ELSE UndefinedStr
        cmd == param[1]
        json == packageJson(fs, packagePath)
    IN  IF cmd = RUN_SCRIPT /\ json.status = "ok" /\ json.hasScripts
        THEN scriptDescriptions(json.scripts, 1, param, absolutePath, relativePath)
        ELSE <<Description(absolutePath, relativePath, cmd, <<"npm", BLANK>> \o cmd)>>

\* commandDescriptionsInPackage(param, packagePath, descriptions): the entries it adds
commandDescriptionsInPackage(wf, fs, param, packagePath) ==
    LET absolutePath == packagePath
        workspaceFolder == getWorkspaceFolder(wf, absolutePath)
        relativePath == IF workspaceFolder # <<>>
                        THEN substring(absolutePath, Len(workspaceFolder[1].fsPath) + 1)
                        ELSE UndefinedStr
        cmd == param[1]
    IN  IF cmd = RUN_SCRIPT
        THEN LET json == packageJson(fs, packagePath)
             IN  IF json.status = "ok" /\ json.hasScripts
                 THEN scriptDescriptions(json.scripts, 1, param, absolutePath, relativePath)
                 ELSE <<>>
        ELSE <<Description(absolutePath, relativePath, cmd, <<"npm", BLANK>> \o cmd)>>

RECURSIVE descriptionsFrom(_, _, _, _, _)
descriptionsFrom(wf, fs, command, dirs, i) ==
    IF i > Len(dirs) THEN <<>>
    ELSE commandDescriptionsInPackage(wf, fs, command, dirs[i])
         \o descriptionsFrom(wf, fs, command, dirs, i + 1)

\* commandsDescriptions(command, dirs); dirs is <<>> (undefined) or <<list>>
commandsDescriptions(wf, fs, command, dirs) ==
    LET ds == IF dirs = <<>> THEN getAllIncludedDirectories(wf) ELSE dirs[1]
    IN  descriptionsFrom(wf, fs, command, ds, 1)

----------------------------------------------------------------------------
(* Selection: the quick pick entries and what executing one does *)

QUOTE == "\""

\* the label of a catalog entry (loop body of pickScriptToExecute)
entryLabel(wf, s) ==
    LET label1 == IF Truthy(s.relativePath)
                  THEN s.relativePath \o <<BLANK, "-", BLANK>> \o s.name
                  ELSE s.name
        root == getWorkspaceFolder(wf, s.absolutePath)
    IN  IF isMultiRoot(wf) /\ root # <<>>
        THEN root[1].name \o <<":", BLANK>> \o label1
        ELSE label1

\* the Script object pushed for a catalog entry
scriptEntry(wf, s, command, alwaysRunInputWindow) ==
    [kind |-> "script",
     label |-> entryLabel(wf, s),
     description |-> s.cmd,
     scriptName |-> s.name,
     cwd |-> s.absolutePath,
     command |-> command,
     isScriptCommand |-> (command[1] = RUN_SCRIPT),
     alwaysRunInputWindow |-> alwaysRunInputWindow]

\* createAllCommand(scriptList, isScriptCommand)
createAllCommand(isScriptCommand) ==
    [kind |-> "all",
     label |-> <<"All">>,
     description |-> <<"Run all ", IF isScriptCommand THEN "scripts" ELSE "commands",
                       " listed below">>,
     scriptName |-> <<"Dummy">>,
     cwd |-> UndefinedStr]

\* variant: the All entry is added for a single description too
buildScriptList_allForOne(wf, descriptions, command, allowAll, alwaysRunInputWindow) ==
    LET isScriptCommand == command[1] = RUN_SCRIPT
        head == IF allowAll /\ Len(descriptions) >= 1
                THEN <<createAllCommand(isScriptCommand)>> ELSE <<>>
    IN  head \o [i \in 1..Len(descriptions) |->
                    scriptEntry(wf, descriptions[i], command, alwaysRunInputWindow)]

\* variant: the All entry is pushed after the entries
buildScriptList_allLast(wf, descriptions, command, allowAll, alwaysRunInputWindow) ==
    LET isScriptCommand == command[1] = RUN_SCRIPT
        tail == IF allowAll /\ Len(descriptions) > 1
                THEN <<createAllCommand(isScriptCommand)>> ELSE <<>>
    IN  [i \in 1..Len(descriptions) |->
            scriptEntry(wf, descriptions[i], command, alwaysRunInputWindow)] \o tail

\* the scriptList built by pickScriptToExecute
buildScriptList(wf, descriptions, command, allowAll, alwaysRunInputWindow) ==
    LET isScriptCommand == command[1] = RUN_SCRIPT
        head == IF allowAll /\ Len(descriptions) > 1
                THEN <<createAllCommand(isScriptCommand)>> ELSE <<>>
    IN  head \o [i \in 1..Len(descriptions) |->
                    scriptEntry(wf, descriptions[i], command, alwaysRunInputWindow)]

\* runNpmCommand(args, cwd, alwaysRunInputWindow) up to the call of workspace.saveAll()
npmInvocation(args, cwd, alwaysRunInputWindow, silent) ==
    [args |-> IF silent THEN Append(args, <<"--silent">>) ELSE args,
     cwd |-> cwd,
     alwaysRunInputWindow |-> alwaysRunInputWindow]

\* variant: the command runs in the workspace root, not in this.cwd
executeScript_rootCwd(this, last, silent) ==
    LET script == IF hasWhiteSpace(this.scriptName)
                  THEN <<QUOTE>> \o this.scriptName \o <<QUOTE>>
                  ELSE this.scriptName
        cmd == IF this.isScriptCommand THEN Append(this.command, script) ELSE this.command
    IN  [last |-> IF this.isScriptCommand THEN <<this>> ELSE last,
         runs |-> <<npmInvocation(cmd, UndefinedStr, this.alwaysRunInputWindow, silent)>>,
         command |-> this.command]

\* variant: lastScript is not recorded
executeScript_noLast(this, last, silent) ==
    LET script == IF hasWhiteSpace(this.scriptName)
                  THEN <<QUOTE>> \o this.scriptName \o <<QUOTE>>
                  ELSE this.scriptName
        cmd == IF this.isScriptCommand THEN Append(this.command, script) ELSE this.command
    IN  [last |-> last,
         runs |-> <<npmInvocation(cmd, this.cwd, this.alwaysRunInputWindow, silent)>>,
         command |-> this.command]

\* variant: the script name is never quoted
executeScript_neverQuote(this, last, silent) ==
    LET cmd == IF this.isScriptCommand THEN Append(this.command, this.scriptName)
               ELSE this.command
    IN  [last |-> IF this.isScriptCommand THEN <<this>> ELSE last,
         runs |-> <<npmInvocation(cmd, this.cwd, this.alwaysRunInputWindow, silent)>>,
         command |-> this.command]

\* variant: lastScript is recorded for every entry, run-script or not
executeScript_alwaysLast(this, last, silent) ==
    LET script == IF hasWhiteSpace(this.scriptName)
                  THEN <<QUOTE>> \o this.scriptName \o <<QUOTE>>
                  ELSE this.scriptName
        cmd == IF this.isScriptCommand THEN Append(this.command, script) ELSE this.command
    IN  [last |-> <<this>>,
         runs |-> <<npmInvocation(cmd, this.cwd, this.alwaysRunInputWindow, silent)>>,
         command |-> this.command]

\* variant: cmd is the command array itself, not a copy of it
executeScript_noCopy(this, last, silent) ==
    LET script == IF hasWhiteSpace(this.scriptName)
                  THEN <<QUOTE>> \o this.scriptName \o <<QUOTE>>
                  ELSE this.scriptName
        cmd == IF this.isScriptCommand THEN Append(this.command, script) ELSE this.command
        call == npmInvocation(cmd, this.cwd, this.alwaysRunInputWindow, silent)
    IN  [last |-> IF this.isScriptCommand THEN <<[this EXCEPT !.command = call.args]>>
                  ELSE last,
         runs |-> <<call>>,
         command |-> call.args]

\* the execute() of a catalog entry: the new lastScript, the runNpmCommand call
\* and the command array of the closure after the call (cmd is Array.from(command),
\* so the pushes of execute() and of runNpmCommand() go to the copy)
executeScript(this, last, silent) ==
    LET script == IF hasWhiteSpace(this.scriptName)
                  THEN <<QUOTE>> \o this.scriptName \o <<QUOTE>>
                  ELSE this.scriptName
        cmd == IF this.isScriptCommand THEN Append(this.command, script) ELSE this.command
    IN  [last |-> IF this.isScriptCommand THEN <<this>> ELSE last,
         runs |-> <<npmInvocation(cmd, this.cwd, this.alwaysRunInputWindow, silent)>>,
         command |-> this.command]

\* what a call of the All entry by itself would be: unbounded recursion
SelfInvocation == [args |-> <<<<"<recursion>">>>>, cwd |-> UndefinedStr, alwaysRunInputWindow |-> FALSE]

\* variant: the loop does not check cwd
runsInAll_noCheck(s) == TRUE

\* the guard of the loop of the All entry
runsInAll(s) == Truthy(s.cwd)

\* the entries of scriptList when the command array they share holds command
withCommand(scriptList, command) ==
    [k \in 1..Len(scriptList) |->
        IF scriptList[k].kind = "script" THEN [scriptList[k] EXCEPT !.command = command]
        ELSE scriptList[k]]

RECURSIVE executeAllFrom(_, _, _, _)
\* the execute() of the All entry: the loop over scriptList from index i on
executeAllFrom(scriptList, i, last, silent) ==
    IF i > Len(scriptList) THEN [last |-> last, runs |-> <<>>]
    ELSE LET s == scriptList[i]
             run == runsInAll(s) /\ s.kind # "all"
             one == IF runsInAll(s)
                    THEN IF s.kind = "all"
                         THEN [last |-> last, runs |-> <<SelfInvocation>>]
                         ELSE executeScript(s, last, silent)
                    ELSE [last |-> last, runs |-> <<>>]
             list == IF run THEN withCommand(scriptList, one.command) ELSE scriptList
             rest == executeAllFrom(list, i + 1, one.last, silent)
         IN  [last |-> rest.last, runs |-> one.runs \o rest.runs]

\* script.execute() for an entry of scriptList
execute(s, scriptList, last, silent) ==
    IF s.kind = "all" THEN executeAllFrom(scriptList, 1, last, silent)
    ELSE executeScript(s, last, silent)

\* the messages of window.showErrorMessage
NoScriptsFound == <<"No scripts found.">>
FailedToFindScript(command) ==
    <<"Failed to find script with ", QUOTE>>
    \o (IF Len(command) >= 2 THEN command[2] ELSE <<"undefined">>)
    \o <<QUOTE, " command">>
FailedToFindHandler(command) ==
    <<"Failed to find handler for ", QUOTE>> \o command[1] \o <<QUOTE, " command">>

\* pickScriptToExecute(descriptions, command, allowAll, alwaysRunInputWindow):
\* the list, the message, whether the quick pick is shown, the new lastScript and the runs
pickScriptToExecute(wf, descriptions, command, allowAll, alwaysRunInputWindow, last, silent) ==
    LET scriptList == buildScriptList(wf, descriptions, command, allowAll, alwaysRunInputWindow)
        isScriptCommand == command[1] = RUN_SCRIPT
    IN  IF Len(scriptList) = 1
        THEN LET e == execute(scriptList[1], scriptList, last, silent)
             IN  [scriptList |-> scriptList, error |-> <<>>, shown |-> FALSE,
                  last |-> e.last, runs |-> e.runs]
        ELSE IF Len(scriptList) = 0
        THEN [scriptList |-> scriptList,
              error |-> <<IF isScriptCommand THEN FailedToFindScript(command)
                          ELSE FailedToFindHandler(command)>>,
              shown |-> FALSE, last |-> last, runs |-> <<>>]
        ELSE [scriptList |-> scriptList, error |-> <<>>, shown |-> TRUE,
              last |-> last, runs |-> <<>>]

\* runNpmCommandInPackages(command, allowAll, alwaysRunInputWindow, dirs)
runNpmCommandInPackages(wf, fs, command, allowAll, alwaysRunInputWindow, dirs, last, silent) ==
    LET descriptions == commandsDescriptions(wf, fs, command, dirs)
        picked == pickScriptToExecute(wf, descriptions, command, allowAll,
                                      alwaysRunInputWindow, last, silent)
    IN  IF Len(descriptions) = 0
        THEN [descriptions |-> descriptions, scriptList |-> <<>>, error |-> <<NoScriptsFound>>,
              shown |-> FALSE, last |-> last, runs |-> <<>>]
        ELSE [descriptions |-> descriptions, scriptList |-> picked.scriptList,
              error |-> picked.error, shown |-> picked.shown,
              last |-> picked.last, runs |-> picked.runs]

----------------------------------------------------------------------------
(* Running a command: the callback of workspace.saveAll() *)

NpmBin == <<"npm">>

RECURSIVE joinBlank(_)
\* args.join(' ')
joinBlank(args) ==
    IF args = <<>> THEN EmptyStr
    ELSE IF Len(args) = 1 THEN args[1]
    ELSE args[1] \o <<BLANK>> \o joinBlank(Tail(args))

RECURSIVE doubleBackslash(_)
\* cwd.replace(/\\/g, '\\\\')
doubleBackslash(str) ==
    IF str = EmptyStr THEN EmptyStr
    ELSE (IF Head(str) = "\\" THEN <<"\\", "\\">> ELSE <<Head(str)>>) \o doubleBackslash(Tail(str))

\* variant of terminalLines: the command line is sent before the cd line
terminalLines_cdLast(args, cwd) ==
    <<joinBlank(<<NpmBin>> \o args)>>
    \o (IF Truthy(cwd)
        THEN <<joinBlank(<< <<"cd">>, <<QUOTE>> \o doubleBackslash(cwd) \o <<QUOTE>> >>)>>
        ELSE <<>>)

\* the lines runCommandInIntegratedTerminal sends to the terminal
terminalLines(args, cwd) ==
    (IF Truthy(cwd)
     THEN <<joinBlank(<< <<"cd">>, <<QUOTE>> \o doubleBackslash(cwd) \o <<QUOTE>> >>)>>
     ELSE <<>>)
    \o <<joinBlank(<<NpmBin>> \o args)>>

\* the command line runCommandInOutputWindow hands to cp.exec
outputWindowCmd(args) == NpmBin \o <<BLANK>> \o joinBlank(args)

----------------------------------------------------------------------------
(* State machine *)

Pids == 1..MaxProcs

NoEvent ==
    [op |-> "activate", command |-> <<>>, allowAll |-> FALSE, dirs |-> <<>>,
     descriptions |-> <<>>, scriptList |-> <<>>, shown |-> FALSE, error |-> <<>>,
     dispatched |-> <<>>, choice |-> 0, sent |-> <<>>, cwd |-> UndefinedStr, pid |-> 0,
     items |-> {}, signal |-> <<>>, report |-> <<>>, text |-> <<>>, outcome |-> "",
     reporter |-> "", before |-> <<>>, ranges |-> <<>>, terminal |-> 0]

\* the settings of a session: <<workspace, package.json files, runSilent, runInTerminal>>
Worlds ==
    { <<w, "fixture", FALSE, TRUE>> : w \in Workspaces }
    \cup { <<<<<<FolderA("file", u, i)>>>>, "mixed", TRUE, TRUE>> :
               u \in {"true", "false"}, i \in {<<>>, <<F1, F2>>} }

\* the state of the commands after activate(), in one of the given sessions
InitSession(worlds) ==
    /\ \E w \in worlds :
          /\ workspaceFolders = w[1]
          /\ fileSystem = w[2]
          /\ runSilentSetting = w[3]
          /\ runInTerminalSetting = w[4]
    /\ lastScript = <<>>
    /\ quickPick = <<>>
    /\ pendingSaves = <<>>
    /\ terminal = 0
    /\ npmTerminals = <<>>
    /\ runningProcesses = << >>
    /\ processPick = <<>>
    /\ liveProcesses = << >>
    /\ lastScriptRun = <<>>
    /\ catalog = <<>>
    /\ ev = NoEvent

\* a session without a package.json to validate
NoValidation ==
    /\ document = <<>>
    /\ savedManifest = <<>>
    /\ nodeModules = <<>>
    /\ validating = 0
    /\ diagnostics = <<>>
    /\ isClosed = FALSE
    /\ delayer = "idle"
    /\ validationEnabled = TRUE

\* the state after activate(), in one of the given sessions
InitIn(worlds) == InitSession(worlds) /\ NoValidation

Init == InitIn(Worlds)

\* the bound on the calls that wait for workspace.saveAll()
CanDispatch(runs) == pendingSaves = <<>> \/ Len(pendingSaves) + Len(runs) <= MaxPending

RECURSIVE latestScriptRun(_, _)
\* history: the latest run-script call among runs, else the one before
latestScriptRun(runs, before) ==
    IF runs = <<>> THEN before
    ELSE IF Last(runs).args[1] = RUN_SCRIPT THEN <<Last(runs)>>
    ELSE latestScriptRun(Front(runs), before)

World == <<workspaceFolders, fileSystem, runSilentSetting, runInTerminalSetting>>
RunLayer == <<terminal, npmTerminals, runningProcesses, processPick, liveProcesses>>
ValidationLayer == <<document, savedManifest, nodeModules, validating, diagnostics, isClosed,
                      delayer, validationEnabled>>

\* a command handler that calls runNpmCommandInPackages
CommandInPackages(op, command, allowAll, alwaysRunInputWindow, dirs) ==
    \E r \in {runNpmCommandInPackages(workspaceFolders, fileSystem, command, allowAll,
                                       alwaysRunInputWindow, dirs, lastScript, runSilentSetting)} :
        /\ CanDispatch(r.runs)
        /\ lastScript' = r.last
        /\ quickPick' = IF r.shown THEN <<r.scriptList>> ELSE quickPick
        /\ catalog' = IF r.shown THEN r.descriptions ELSE catalog
        /\ pendingSaves' = pendingSaves \o r.runs
        /\ lastScriptRun' = latestScriptRun(r.runs, lastScriptRun)
        /\ ev' = [NoEvent EXCEPT !.op = op, !.command = command, !.allowAll = allowAll,
                                 !.dirs = IF dirs = <<>>
                                          THEN getAllIncludedDirectories(workspaceFolders)
                                          ELSE dirs[1],
                                 !.descriptions = r.descriptions,
                                 !.scriptList = r.scriptList, !.shown = r.shown,
                                 !.error = r.error, !.dispatched = r.runs]
        /\ UNCHANGED <<World, ValidationLayer, RunLayer>>

\* the argument of npm-script.install: none, or the package.json of the context menu
InstallArguments ==
    { <<>>,
      <<[fsPath |-> pathJoin(pathJoin(RootA, F1), <<"package.json">>)]>>,
      <<[fsPath |-> <<SEP, "x", SEP, "package.json">>]>> }

runNpmInstall ==
    \E arg \in InstallArguments :
        LET dirs == IF arg # <<>> /\ Truthy(arg[1].fsPath)
                    THEN <<pathDirname(arg[1].fsPath)>>
                    ELSE getAllIncludedDirectories(workspaceFolders)
        IN  CommandInPackages("runNpmInstall", << <<"install">> >>, TRUE, FALSE, <<dirs>>)

runNpmTest == CommandInPackages("runNpmTest", << <<"test">> >>, TRUE, FALSE, <<>>)

runNpmStart == CommandInPackages("runNpmStart", << <<"start">> >>, TRUE, FALSE, <<>>)

runNpmBuild == CommandInPackages("runNpmBuild", << <<"run">>, <<"build">> >>, TRUE, FALSE, <<>>)

runNpmAudit == CommandInPackages("runNpmAudit", << <<"audit">> >>, TRUE, FALSE, <<>>)

runNpmOutdated == CommandInPackages("runNpmOutdated", << <<"outdated">> >>, TRUE, FALSE, <<>>)

runNpmInit == CommandInPackages("runNpmInit", << <<"init">> >>, TRUE, FALSE, <<>>)

runNpmScript == CommandInPackages("runNpmScript", <<RUN_SCRIPT>>, FALSE, FALSE, <<>>)

rerunLastScript ==
    IF lastScript # <<>>
    THEN \E e \in {executeScript(lastScript[1], lastScript, runSilentSetting)} :
             /\ CanDispatch(e.runs)
             /\ lastScript' = e.last
             /\ pendingSaves' = pendingSaves \o e.runs
             /\ lastScriptRun' = latestScriptRun(e.runs, lastScriptRun)
             /\ ev' = [NoEvent EXCEPT !.op = "rerunLastScript", !.dispatched = e.runs]
             /\ UNCHANGED <<World, ValidationLayer, RunLayer, quickPick, catalog>>
    ELSE CommandInPackages("rerunLastScript", <<RUN_SCRIPT>>, FALSE, FALSE, <<>>)

\* the callback of window.showQuickPick(scriptList) with an entry
PickEntry ==
    /\ quickPick # <<>>
    /\ \E i \in 1..Len(quickPick[1]) :
          \E e \in {execute(quickPick[1][i], quickPick[1], lastScript, runSilentSetting)} :
              /\ CanDispatch(e.runs)
              /\ lastScript' = e.last
              /\ quickPick' = <<>>
              /\ catalog' = <<>>
              /\ pendingSaves' = pendingSaves \o e.runs
              /\ lastScriptRun' = latestScriptRun(e.runs, lastScriptRun)
              /\ ev' = [NoEvent EXCEPT !.op = "pick", !.scriptList = quickPick[1],
                                       !.choice = i, !.dispatched = e.runs]
              /\ UNCHANGED <<World, ValidationLayer, RunLayer>>

\* the callback of window.showQuickPick(scriptList) without an entry
CancelPick ==
    /\ quickPick # <<>>
    /\ quickPick' = <<>>
    /\ catalog' = <<>>
    /\ ev' = [NoEvent EXCEPT !.op = "cancel", !.scriptList = quickPick[1]]
    /\ UNCHANGED <<World, ValidationLayer, RunLayer, lastScript, pendingSaves, lastScriptRun>>

\* workspace.saveAll().then(...) of runNpmCommand, in the integrated terminal:
\* a terminal is created when none is held, and the lines are sent to it
SaveAllThenTerminal ==
    /\ pendingSaves # <<>>
    /\ terminal = 0 => Len(npmTerminals) < MaxTerminals
    /\ \E i \in 1..Len(pendingSaves) :
          LET call == pendingSaves[i]
              created == IF terminal = 0 THEN Append(npmTerminals, "open") ELSE npmTerminals
              held == IF terminal = 0 THEN Len(created) ELSE terminal
          IN  /\ runInTerminalSetting /\ ~call.alwaysRunInputWindow
              /\ pendingSaves' = SubSeq(pendingSaves, 1, i - 1)
                                 \o SubSeq(pendingSaves, i + 1, Len(pendingSaves))
              /\ npmTerminals' = created
              /\ terminal' = held
              /\ ev' = [NoEvent EXCEPT !.op = "runCommandInIntegratedTerminal",
                                       !.sent = terminalLines(call.args, call.cwd),
                                       !.cwd = call.cwd, !.terminal = held]
    /\ UNCHANGED <<World, ValidationLayer, lastScript, quickPick, runningProcesses, processPick, liveProcesses,
                   lastScriptRun, catalog>>

\* workspace.saveAll().then(...) of runNpmCommand, in the output window
SaveAllThenOutputWindow ==
    /\ pendingSaves # <<>>
    /\ \E i \in 1..Len(pendingSaves), pid \in Pids \ DOMAIN liveProcesses :
          LET call == pendingSaves[i]
              cmd == outputWindowCmd(call.args)
          IN  /\ ~(runInTerminalSetting /\ ~call.alwaysRunInputWindow)
              /\ pendingSaves' = SubSeq(pendingSaves, 1, i - 1)
                                 \o SubSeq(pendingSaves, i + 1, Len(pendingSaves))
              /\ runningProcesses' =
                    [q \in DOMAIN runningProcesses \cup {pid} |->
                        IF q = pid THEN cmd ELSE runningProcesses[q]]
              /\ liveProcesses' =
                    [q \in DOMAIN liveProcesses \cup {pid} |->
                        IF q = pid THEN cmd ELSE liveProcesses[q]]
              /\ ev' = [NoEvent EXCEPT !.op = "runCommandInOutputWindow",
                                       !.sent = <<cmd>>, !.cwd = call.cwd, !.pid = pid]
    /\ UNCHANGED <<World, ValidationLayer, lastScript, quickPick, terminal, npmTerminals, processPick, lastScriptRun,
                   catalog>>

\* variant of ProcessExit: the entry is deleted only after a termination signal
ProcessExit_onlySignal ==
    \E pid \in DOMAIN liveProcesses, how \in {"0", "1", "SIGTERM"} :
        /\ runningProcesses' =
              IF how = "SIGTERM"
              THEN [q \in DOMAIN runningProcesses \ {pid} |-> runningProcesses[q]]
              ELSE runningProcesses
        /\ liveProcesses' = [q \in DOMAIN liveProcesses \ {pid} |-> liveProcesses[q]]
        /\ ev' = [NoEvent EXCEPT !.op = "exit", !.pid = pid, !.error = <<how>>]
        /\ UNCHANGED <<World, ValidationLayer, lastScript, quickPick, pendingSaves, terminal, npmTerminals, processPick,
                       lastScriptRun, catalog>>

\* p.on('exit', ...) of a child process, with exit code 0 or 1 or the signal SIGTERM
ProcessExit ==
    \E pid \in DOMAIN liveProcesses, how \in {"0", "1", "SIGTERM"} :
        /\ runningProcesses' = [q \in DOMAIN runningProcesses \ {pid} |-> runningProcesses[q]]
        /\ liveProcesses' = [q \in DOMAIN liveProcesses \ {pid} |-> liveProcesses[q]]
        /\ ev' = [NoEvent EXCEPT !.op = "exit", !.pid = pid, !.error = <<how>>]
        /\ UNCHANGED <<World, ValidationLayer, lastScript, quickPick, pendingSaves, terminal, npmTerminals, processPick,
                       lastScriptRun, catalog>>

\* variant of OnDidCloseTerminal: the reference to the closed terminal is kept
OnDidCloseTerminal_keepsReference ==
    \E isNpmTerminal \in {TRUE, FALSE} :
        /\ isNpmTerminal => terminal # 0 /\ npmTerminals[terminal] = "open"
        /\ npmTerminals' = IF isNpmTerminal
                           THEN [npmTerminals EXCEPT ![terminal] = "closed"]
                           ELSE npmTerminals
        /\ terminal' = terminal
        /\ ev' = [NoEvent EXCEPT !.op = "onDidCloseTerminal",
                                 !.terminal = IF isNpmTerminal THEN terminal ELSE 0]
        /\ UNCHANGED <<World, ValidationLayer, lastScript, quickPick, pendingSaves, runningProcesses,
                       processPick, liveProcesses, lastScriptRun, catalog>>

\* window.onDidCloseTerminal: the user closed the 'npm' terminal that is held, or
\* a terminal that is not of this extension
OnDidCloseTerminal ==
    \E isNpmTerminal \in {TRUE, FALSE} :
        /\ isNpmTerminal => terminal # 0
        /\ npmTerminals' = IF isNpmTerminal
                           THEN [npmTerminals EXCEPT ![terminal] = "closed"]
                           ELSE npmTerminals
        /\ terminal' = IF isNpmTerminal THEN 0 ELSE terminal
        /\ ev' = [NoEvent EXCEPT !.op = "onDidCloseTerminal",
                                 !.terminal = IF isNpmTerminal THEN terminal ELSE 0]
        /\ UNCHANGED <<World, ValidationLayer, lastScript, quickPick, pendingSaves, runningProcesses,
                       processPick, liveProcesses, lastScriptRun, catalog>>

\* the message terminateScript shows when npm.runInTerminal is set
KillingOnlySupported ==
    <<"Killing is only supported when the setting \"runInTerminal\" is \"false\"">>

\* new ProcessItem(value.cmd, ..., value.process.pid) for each running process; the
\* order of the list plays no part in what follows
processItems(procs) == { [label |-> procs[q], pid |-> q] : q \in DOMAIN procs }

\* variant of terminateScript: the list of processes is shown whatever the setting
terminateScript_anyMode ==
    /\ processPick' = <<processItems(runningProcesses)>>
    /\ ev' = [NoEvent EXCEPT !.op = "terminateScript", !.shown = TRUE,
                             !.items = processItems(runningProcesses)]
    /\ UNCHANGED <<World, ValidationLayer, lastScript, quickPick, pendingSaves, terminal, npmTerminals, runningProcesses,
                   liveProcesses, lastScriptRun, catalog>>

terminateScript ==
    /\ IF runInTerminalSetting
       THEN /\ processPick' = processPick
            /\ ev' = [NoEvent EXCEPT !.op = "terminateScript",
                                     !.error = <<KillingOnlySupported>>]
       ELSE /\ processPick' = <<processItems(runningProcesses)>>
            /\ ev' = [NoEvent EXCEPT !.op = "terminateScript", !.shown = TRUE,
                                     !.items = processItems(runningProcesses)]
    /\ UNCHANGED <<World, ValidationLayer, lastScript, quickPick, pendingSaves, terminal, npmTerminals, runningProcesses,
                   liveProcesses, lastScriptRun, catalog>>

\* variant of PickProcess: the entry of the signalled process is deleted at once
PickProcess_forgets ==
    /\ processPick # <<>>
    /\ \E item \in processPick[1] :
          /\ processPick' = <<>>
          /\ runningProcesses' =
                [q \in DOMAIN runningProcesses \ {item.pid} |-> runningProcesses[q]]
          /\ ev' = [NoEvent EXCEPT !.op = "kill", !.items = processPick[1],
                                   !.pid = item.pid, !.signal = <<"SIGTERM">>]
    /\ UNCHANGED <<World, ValidationLayer, lastScript, quickPick, pendingSaves, terminal, npmTerminals,
                   liveProcesses, lastScriptRun, catalog>>

\* the callback of terminateScript's quick pick with a process item:
\* kill(value.pid, 'SIGTERM')
PickProcess ==
    /\ processPick # <<>>
    /\ \E item \in processPick[1] :
          /\ processPick' = <<>>
          /\ ev' = [NoEvent EXCEPT !.op = "kill", !.items = processPick[1],
                                   !.pid = item.pid, !.signal = <<"SIGTERM">>]
    /\ UNCHANGED <<World, ValidationLayer, lastScript, quickPick, pendingSaves, terminal, npmTerminals, runningProcesses,
                   liveProcesses, lastScriptRun, catalog>>

\* the callback of terminateScript's quick pick without a process item
CancelProcessPick ==
    /\ processPick # <<>>
    /\ processPick' = <<>>
    /\ ev' = [NoEvent EXCEPT !.op = "cancelProcessPick", !.items = processPick[1]]
    /\ UNCHANGED <<World, ValidationLayer, lastScript, quickPick, pendingSaves, terminal, npmTerminals, runningProcesses,
                   liveProcesses, lastScriptRun, catalog>>

\* the user changes the setting npm.runInTerminal, read again by every useTerminal()
SetRunInTerminal ==
    /\ runInTerminalSetting' = ~runInTerminalSetting
    /\ ev' = [NoEvent EXCEPT !.op = "setRunInTerminal"]
    /\ UNCHANGED <<workspaceFolders, fileSystem, runSilentSetting, RunLayer, ValidationLayer,
                   lastScript,
                   quickPick, pendingSaves, lastScriptRun, catalog>>

Next ==
    \/ runNpmInstall
    \/ runNpmTest
    \/ runNpmStart
    \/ runNpmBuild
    \/ runNpmAudit
    \/ runNpmOutdated
    \/ runNpmInit
    \/ runNpmScript
    \/ rerunLastScript
    \/ PickEntry
    \/ CancelPick
    \/ SaveAllThenTerminal

Spec == Init /\ [][Next]_vars

----------------------------------------------------------------------------
(* The output window session: commands run as child processes *)

OutputWindowWorlds ==
    { <<<<<<FolderA("file", "false", <<F1, F2>>)>>>>, fs, silent, FALSE>> :
         fs \in FileSystems, silent \in {TRUE, FALSE} }

InitOutputWindow == InitIn(OutputWindowWorlds)

NextOutputWindow ==
    \/ runNpmTest
    \/ runNpmScript
    \/ rerunLastScript
    \/ PickEntry
    \/ CancelPick
    \/ SaveAllThenOutputWindow
    \/ ProcessExit

SpecOutputWindow == InitOutputWindow /\ [][NextOutputWindow]_vars

----------------------------------------------------------------------------
(* The tracked processes: spawn, exit, terminate-script and a setting that changes *)

ProcessWorlds == { <<<<<<FolderA("file", "true", <<>>)>>>>, "mixed", FALSE, FALSE>> }

InitProcesses == InitIn(ProcessWorlds)

NextProcesses ==
    \/ runNpmTest
    \/ runNpmStart
    \/ SaveAllThenOutputWindow
    \/ SaveAllThenTerminal
    \/ ProcessExit
    \/ terminateScript
    \/ PickProcess
    \/ CancelProcessPick
    \/ SetRunInTerminal

SpecProcesses == InitProcesses /\ [][NextProcesses]_vars

----------------------------------------------------------------------------
(* The directory set and the catalog as functions of the workspace *)

FnFoldersA ==
    { FolderA(s, u, i) : s \in {"file", "vscode-vfs"}, u \in UseRootValues,
                         i \in {<<>>, <<F1, F2>>, <<F2, F1>>, <<Dot, F1>>} }

FnFoldersB ==
    { FolderB(s, u, i) : s \in {"file", "vscode-vfs"}, u \in UseRootValues,
                         i \in {<<>>, <<F1>>, <<F2, F1>>} }

FnWorkspaces ==
    {<<>>, << <<>> >>} \cup { <<<<a>>>> : a \in FnFoldersA }
                     \cup { <<<<a, b>>>> : a \in FnFoldersA, b \in FnFoldersB }

FnWorlds == { <<w, fs, FALSE, TRUE>> : w \in FnWorkspaces, fs \in FileSystems }

FnCommands ==
    { <<RUN_SCRIPT>>, <<RUN_SCRIPT, Test>>, <<RUN_SCRIPT, MyScript>>, <<RUN_SCRIPT, Shell2>>,
      << <<"install">> >>, << <<"run">>, <<"build">> >> }

\* dirs: undefined, or a list given by the caller (with a directory outside the workspace)
FnDirs ==
    { <<>>, << <<pathJoin(RootA, F1), <<SEP, "x">>, pathJoin(RootA, F2), RootA>> >> }

InitFn == InitIn(FnWorlds)

applyGetAllIncludedDirectories ==
    /\ ev' = [NoEvent EXCEPT !.op = "getAllIncludedDirectories",
                             !.dirs = getAllIncludedDirectories(workspaceFolders)]
    /\ UNCHANGED <<World, ValidationLayer, RunLayer, lastScript, quickPick, pendingSaves, lastScriptRun, catalog>>

applyCommandsDescriptions ==
    /\ \E command \in FnCommands, dirs \in FnDirs :
          ev' = [NoEvent EXCEPT !.op = "commandsDescriptions", !.command = command,
                                !.dirs = IF dirs = <<>>
                                         THEN getAllIncludedDirectories(workspaceFolders)
                                         ELSE dirs[1],
                                !.descriptions =
                                    commandsDescriptions(workspaceFolders, fileSystem, command, dirs)]
    /\ UNCHANGED <<World, ValidationLayer, RunLayer, lastScript, quickPick, pendingSaves, lastScriptRun, catalog>>

NextFn ==
    \/ applyGetAllIncludedDirectories
    \/ applyCommandsDescriptions

SpecFn == InitFn /\ [][NextFn]_vars

----------------------------------------------------------------------------
(* Validation of the package.json: the text and its source ranges *)

\* a string literal of the text: its characters and the two quotes
literalLength(s) == Len(s) + 2

\* "name": "range" in a dependencies object
Dependency(name, range) == [name |-> name, range |-> range]

\* a top-level property of the text: a key with an object of dependencies or with a string
ObjectProperty(key, entries) ==
    [key |-> key, type |-> "object", entries |-> entries, value |-> EmptyStr]
StringProperty(key, value) ==
    [key |-> key, type |-> "string", entries |-> <<>>, value |-> value]
\* a property the text ends in: the key, and neither colon nor value
TruncatedProperty(key) ==
    [key |-> key, type |-> "truncated", entries |-> <<>>, value |-> EmptyStr]

\* the text of no characters: it has no root node
NoText == <<[key |-> EmptyStr, type |-> "no root", entries |-> <<>>, value |-> EmptyStr]>>
\* the text of one string literal: its root node has no children
LiteralText(value) ==
    <<[key |-> EmptyStr, type |-> "literal root", entries |-> <<>>, value |-> value]>>

RECURSIVE entriesLength(_)
\* the characters of the entries of an object, commas included
entriesLength(entries) ==
    IF entries = <<>> THEN 0
    ELSE literalLength(Head(entries).name) + 1 + literalLength(Head(entries).range)
         + (IF Len(entries) > 1 THEN 1 ELSE 0) + entriesLength(Tail(entries))

valueLength(p) ==
    IF p.type = "string" THEN literalLength(p.value)
    ELSE IF p.type = "truncated" THEN 0
    ELSE 2 + entriesLength(p.entries)

RECURSIVE entryNodes(_, _)
\* the property nodes of an object whose first entry starts at offset
entryNodes(entries, offset) ==
    IF entries = <<>> THEN <<>>
    ELSE LET e == Head(entries)
             nameLength == literalLength(e.name)
             versionOffset == offset + nameLength + 1
             versionLength == literalLength(e.range)
         IN  << [type |-> "property",
                 name |-> [value |-> e.name, offset |-> offset, length |-> nameLength],
                 version |-> [offset |-> versionOffset, length |-> versionLength]] >>
             \o entryNodes(Tail(entries), versionOffset + versionLength + 1)

RECURSIVE propertyNodes(_, _)
\* the property nodes of the root object; children is <<>> for a node without
\* children, and pair tells that the property node has its two children
propertyNodes(props, offset) ==
    IF props = <<>> THEN <<>>
    ELSE LET p == Head(props)
             keyLength == literalLength(p.key)
             valueOffset == offset + keyLength + 1
         IN  << [key |-> [value |-> p.key, offset |-> offset, length |-> keyLength],
                 pair |-> p.type # "truncated",
                 value |-> [type |-> p.type, offset |-> valueOffset,
                            length |-> valueLength(p),
                            children |-> IF p.type = "object"
                                         THEN <<entryNodes(p.entries, valueOffset + 1)>>
                                         ELSE <<>>]] >>
             \o propertyNodes(Tail(props), valueOffset + valueLength(p) + 1)

\* parseTree(text): the children of the root node of { "key": value, ... }
parseTree(text) == propertyNodes(text, 1)

\* node.children of the root node of the text is there
rootHasChildren(text) ==
    ~(Len(text) = 1 /\ text[1].type \in {"no root", "literal root"})

\* variant of Put: a key that is there already keeps its value
Put_keepFirst(obj, key, value) ==
    [k \in DOMAIN obj \cup {key} |-> IF k \in DOMAIN obj THEN obj[k] ELSE value]

\* obj[key] = value
Put(obj, key, value) == [k \in DOMAIN obj \cup {key} |-> IF k = key THEN value ELSE obj[k]]

DependenciesKey == <<"dependencies">>
DevDependenciesKey == <<"devDependencies">>
NameKey == <<"name">>

isDependency(value) == value = DependenciesKey \/ value = DevDependenciesKey

RECURSIVE collectDefinedDependencies(_, _)
\* deps after the entries of the node's children were recorded
collectDefinedDependencies(deps, children) ==
    IF children = <<>> THEN deps
    ELSE LET child == Head(children)
         IN  collectDefinedDependencies(
                 Put(deps, child.name.value,
                     [name |-> [offset |-> child.name.offset, length |-> child.name.length],
                      version |-> child.version]),
                 Tail(children))

RECURSIVE sourceRangesFrom(_, _)
\* parseSourceRanges after the first nodes: acc is the result so far
sourceRangesFrom(nodes, acc) ==
    IF nodes = <<>> \/ acc.threw THEN acc
    ELSE LET child == Head(nodes)
             properties == Put(acc.properties, child.key.value,
                               [name |-> [offset |-> child.key.offset,
                                          length |-> child.key.length]])
         IN  IF child.pair /\ isDependency(child.key.value)
             THEN IF child.value.children = <<>>
                  THEN [acc EXCEPT !.threw = TRUE]
                  ELSE sourceRangesFrom(Tail(nodes),
                          [acc EXCEPT !.properties = properties,
                                      !.dependencies =
                                          collectDefinedDependencies(acc.dependencies,
                                                                     child.value.children[1])])
             ELSE sourceRangesFrom(Tail(nodes), [acc EXCEPT !.properties = properties])

\* parseSourceRanges(text); threw when the root node or a dependencies value has
\* no children
parseSourceRanges(text) ==
    IF ~rootHasChildren(text)
    THEN [threw |-> TRUE, properties |-> << >>, dependencies |-> << >>]
    ELSE sourceRangesFrom(parseTree(text), [threw |-> FALSE, properties |-> << >>,
                                            dependencies |-> << >>])

----------------------------------------------------------------------------
(* Validation of the package.json: the report and the diagnostics *)

\* an entry of NpmDependencyReport; version is <<>> (undefined) or <<version>>
ReportEntry(name, version, missing, invalid, extraneous) ==
    [name |-> name, version |-> version, missing |-> missing, invalid |-> invalid,
     extraneous |-> extraneous]

\* NpmListReport; problems is <<>> (undefined) or <<list of tags>>, dependencies
\* lists the entries in the order of the keys
ListReport(invalid, problems, dependencies) ==
    [invalid |-> invalid, problems |-> problems, dependencies |-> dependencies]

MissingTag == <<"missing:">>
InvalidTag == <<"invalid:">>
ExtraneousTag == <<"extraneous:">>

anyModuleErrors(report) ==
    IF report.problems # <<>>
    THEN \E i \in 1..Len(report.problems[1]) :
            LET each == report.problems[1][i]
            IN  \/ startsWith(each, MissingTag)
                \/ startsWith(each, InvalidTag)
                \/ startsWith(each, ExtraneousTag)
    ELSE FALSE

\* result[each][moduleName] for each = 'dependencies': <<>> or <<entry>>
reportEntry(report, moduleName) ==
    LET found == SelectSeq(report.dependencies, LAMBDA e : e.name = moduleName)
    IN  IF found = <<>> THEN <<>> ELSE <<Last(found)>>

\* `${value}` of a string | undefined
templateOf(optional) == IF optional = <<>> THEN <<"undefined">> ELSE optional[1]

\* new Diagnostic(new Range(positionAt(offset), positionAt(offset + length)), message,
\* DiagnosticSeverity.Warning), on a text of one line
Diagnostic(source, message) ==
    [range |-> [start |-> source.offset, end |-> source.offset + source.length],
     message |-> message, severity |-> "Warning", source |-> EmptyStr]

NotInstalled(moduleName) == <<"Module '">> \o moduleName \o <<"' is not installed">>
InstalledVersionInvalid(moduleName, version) ==
    <<"Module '">> \o moduleName \o <<"' the installed version '">> \o templateOf(version)
    \o <<"' is invalid">>
Extraneous(moduleName) == <<"Module '">> \o moduleName \o <<"' is extraneous">>

\* variant of getDiagnostic: the invalid flag is looked at before the missing flag
getDiagnostic_invalidFirst(report, moduleName, ranges) ==
    LET entry == reportEntry(report, moduleName)
        declared == moduleName \in DOMAIN ranges.dependencies
    IN  IF entry = <<>> THEN [threw |-> FALSE, diagnostic |-> <<>>]
        ELSE IF entry[1].invalid \/ entry[1].missing
        THEN IF ~declared THEN [threw |-> TRUE, diagnostic |-> <<>>]
             ELSE IF entry[1].invalid
             THEN [threw |-> FALSE,
                   diagnostic |-> <<Diagnostic(ranges.dependencies[moduleName].version,
                                     InstalledVersionInvalid(moduleName, entry[1].version))>>]
             ELSE [threw |-> FALSE,
                   diagnostic |-> <<Diagnostic(ranges.dependencies[moduleName].name,
                                               NotInstalled(moduleName))>>]
        ELSE [threw |-> FALSE, diagnostic |-> <<>>]

\* variant of getDiagnostic: the not-installed diagnostic sits on the version
getDiagnostic_versionSpan(report, moduleName, ranges) ==
    LET entry == reportEntry(report, moduleName)
        declared == moduleName \in DOMAIN ranges.dependencies
    IN  IF entry = <<>> THEN [threw |-> FALSE, diagnostic |-> <<>>]
        ELSE IF entry[1].missing \/ entry[1].invalid
        THEN IF ~declared THEN [threw |-> TRUE, diagnostic |-> <<>>]
             ELSE [threw |-> FALSE,
                   diagnostic |-> <<Diagnostic(ranges.dependencies[moduleName].version,
                                       IF entry[1].missing THEN NotInstalled(moduleName)
                                       ELSE InstalledVersionInvalid(moduleName,
                                                                    entry[1].version))>>]
        ELSE [threw |-> FALSE, diagnostic |-> <<>>]

\* variant of getDiagnostic: the invalid diagnostic sits on the name
getDiagnostic_nameSpan(report, moduleName, ranges) ==
    LET entry == reportEntry(report, moduleName)
        declared == moduleName \in DOMAIN ranges.dependencies
    IN  IF entry = <<>> THEN [threw |-> FALSE, diagnostic |-> <<>>]
        ELSE IF entry[1].missing \/ entry[1].invalid
        THEN IF ~declared THEN [threw |-> TRUE, diagnostic |-> <<>>]
             ELSE [threw |-> FALSE,
                   diagnostic |-> <<Diagnostic(ranges.dependencies[moduleName].name,
                                       IF entry[1].missing THEN NotInstalled(moduleName)
                                       ELSE InstalledVersionInvalid(moduleName,
                                                                    entry[1].version))>>]
        ELSE [threw |-> FALSE, diagnostic |-> <<>>]

\* variant of getDiagnostic: the extraneous diagnostic looks for the property
\* name first and for dependencies last
getDiagnostic_nameFirst(report, moduleName, ranges) ==
    LET entry == reportEntry(report, moduleName)
        keys == SelectSeq(<<NameKey, DevDependenciesKey, DependenciesKey>>,
                          LAMBDA k : k \in DOMAIN ranges.properties)
    IN  IF entry = <<>> THEN [threw |-> FALSE, diagnostic |-> <<>>]
        ELSE IF entry[1].missing \/ entry[1].invalid
        THEN IF moduleName \notin DOMAIN ranges.dependencies
             THEN [threw |-> TRUE, diagnostic |-> <<>>]
             ELSE [threw |-> FALSE,
                   diagnostic |->
                       <<IF entry[1].missing
                         THEN Diagnostic(ranges.dependencies[moduleName].name,
                                         NotInstalled(moduleName))
                         ELSE Diagnostic(ranges.dependencies[moduleName].version,
                                         InstalledVersionInvalid(moduleName,
                                                                 entry[1].version))>>]
        ELSE IF entry[1].extraneous
        THEN IF keys = <<>> THEN [threw |-> TRUE, diagnostic |-> <<>>]
             ELSE [threw |-> FALSE,
                   diagnostic |-> <<Diagnostic(ranges.properties[keys[1]].name,
                                               Extraneous(moduleName))>>]
        ELSE [threw |-> FALSE, diagnostic |-> <<>>]

\* getDiagnostic(document, result, moduleName, ranges): <<>> (null) or <<diagnostic>>, or
\* threw when the range it needs is undefined. A report has no devDependencies, so
\* the loop over ['dependencies', 'devDependencies'] acts for 'dependencies' only.
getDiagnostic(report, moduleName, ranges) ==
    LET entry == reportEntry(report, moduleName)
    IN  IF entry = <<>> THEN [threw |-> FALSE, diagnostic |-> <<>>]
        ELSE IF entry[1].missing
        THEN IF moduleName \notin DOMAIN ranges.dependencies
             THEN [threw |-> TRUE, diagnostic |-> <<>>]
             ELSE [threw |-> FALSE,
                   diagnostic |-> <<Diagnostic(ranges.dependencies[moduleName].name,
                                               NotInstalled(moduleName))>>]
        ELSE IF entry[1].invalid
        THEN IF moduleName \notin DOMAIN ranges.dependencies
             THEN [threw |-> TRUE, diagnostic |-> <<>>]
             ELSE [threw |-> FALSE,
                   diagnostic |-> <<Diagnostic(ranges.dependencies[moduleName].version,
                                     InstalledVersionInvalid(moduleName, entry[1].version))>>]
        ELSE IF entry[1].extraneous
        THEN IF DependenciesKey \in DOMAIN ranges.properties
             THEN [threw |-> FALSE,
                   diagnostic |-> <<Diagnostic(ranges.properties[DependenciesKey].name,
                                               Extraneous(moduleName))>>]
             ELSE IF DevDependenciesKey \in DOMAIN ranges.properties
             THEN [threw |-> FALSE,
                   diagnostic |-> <<Diagnostic(ranges.properties[DevDependenciesKey].name,
                                               Extraneous(moduleName))>>]
             ELSE IF NameKey \in DOMAIN ranges.properties
             THEN [threw |-> FALSE,
                   diagnostic |-> <<Diagnostic(ranges.properties[NameKey].name,
                                               Extraneous(moduleName))>>]
             ELSE [threw |-> TRUE, diagnostic |-> <<>>]
        ELSE [threw |-> FALSE, diagnostic |-> <<>>]

NpmSource == <<"npm">>

RECURSIVE diagnosticsFrom(_, _, _, _)
\* the loop of doValidate over the names of report.dependencies, from the i-th on
diagnosticsFrom(report, i, ranges, acc) ==
    IF i > Len(report.dependencies) THEN [threw |-> FALSE, diagnostics |-> acc]
    ELSE LET d == getDiagnostic(report, report.dependencies[i].name, ranges)
         IN  IF d.threw THEN [threw |-> TRUE, diagnostics |-> acc]
             ELSE diagnosticsFrom(report, i + 1, ranges,
                     IF d.diagnostic = <<>> THEN acc
                     ELSE Append(acc, [d.diagnostic[1] EXCEPT !.source = NpmSource]))

CannotValidate == <<"[npm-script-runner] Cannot validate the package.json ">>

\* variant of validate: a pass that stops early leaves the diagnostics as they are
validate_noClear(report, text, before) ==
    IF report.invalid \/ ~anyModuleErrors(report)
    THEN [diagnostics |-> before, message |-> <<>>, outcome |-> "nothing to report"]
    ELSE LET ranges == parseSourceRanges(text)
             found == diagnosticsFrom(report, 1, ranges, <<>>)
         IN  IF ranges.threw \/ found.threw
             THEN [diagnostics |-> before, message |-> <<CannotValidate>>,
                   outcome |-> "exception"]
             ELSE [diagnostics |-> found.diagnostics, message |-> <<>>,
                   outcome |-> "published"]

\* variant of validate: the flags of the entries are looked at without the problems list
validate_noShortCircuit(report, text, before) ==
    LET ranges == parseSourceRanges(text)
        found == diagnosticsFrom(report, 1, ranges, <<>>)
    IN  IF ranges.threw \/ found.threw
        THEN [diagnostics |-> <<>>, message |-> <<CannotValidate>>, outcome |-> "exception"]
        ELSE [diagnostics |-> found.diagnostics, message |-> <<>>, outcome |-> "published"]

\* doValidate once the report is there: the diagnostics of the document afterwards,
\* the message shown, and how the pass ended
validate(report, text, before) ==
    IF report.invalid \/ ~anyModuleErrors(report)
    THEN [diagnostics |-> <<>>, message |-> <<>>, outcome |-> "nothing to report"]
    ELSE LET ranges == parseSourceRanges(text)
             found == diagnosticsFrom(report, 1, ranges, <<>>)
         IN  IF ranges.threw \/ found.threw
             THEN [diagnostics |-> <<>>, message |-> <<CannotValidate>>,
                   outcome |-> "exception"]
             ELSE [diagnostics |-> found.diagnostics, message |-> <<>>,
                   outcome |-> "published"]

----------------------------------------------------------------------------
(* Validation of the package.json: the passes *)

Foo == <<"foo">>
Bar == <<"bar">>
V1 == <<"1.0.0">>
V2 == <<"2.0.0">>
R1 == <<"^1.0.0">>
R2 == <<"^2.0.0">>

\* texts of the package.json in the editor
Manifests ==
    { <<StringProperty(NameKey, <<"x">>), ObjectProperty(DependenciesKey, <<Dependency(Foo, R1)>>)>>,
      <<ObjectProperty(DependenciesKey, <<Dependency(Foo, R1), Dependency(Bar, R2)>>)>>,
      <<ObjectProperty(DevDependenciesKey, <<Dependency(Foo, R2)>>), StringProperty(NameKey, <<"x">>)>>,
      <<StringProperty(NameKey, <<"x">>)>>,
      <<ObjectProperty(<<"scripts">>, <<Dependency(Test, <<"tag">>)>>)>>,
      <<ObjectProperty(DependenciesKey, <<Dependency(Foo, R1)>>),
        ObjectProperty(DevDependenciesKey, <<Dependency(Foo, R2)>>)>>,
      <<StringProperty(DependenciesKey, <<"oops">>)>> }

\* what 'npm ls --depth 0 --json' may print about foo and about bar
FooEntries ==
    { ReportEntry(Foo, <<>>, TRUE, FALSE, FALSE),
      ReportEntry(Foo, <<V2>>, FALSE, TRUE, FALSE),
      ReportEntry(Foo, <<>>, FALSE, TRUE, FALSE),
      ReportEntry(Foo, <<V2>>, TRUE, TRUE, FALSE),
      ReportEntry(Foo, <<V1>>, TRUE, FALSE, TRUE),
      ReportEntry(Foo, <<V1>>, FALSE, FALSE, FALSE) }

BarEntries ==
    { ReportEntry(Bar, <<V1>>, FALSE, FALSE, TRUE),
      ReportEntry(Bar, <<V1>>, FALSE, TRUE, TRUE),
      ReportEntry(Bar, <<>>, TRUE, FALSE, FALSE) }

ProblemLists ==
    { <<>>, << <<>> >>,
      << << <<"peer dep missing:", "baz">> >> >>,
      << << MissingTag \o <<BLANK>> \o Foo >> >>,
      << << <<"peer dep missing:", "baz">>, ExtraneousTag \o <<BLANK>> \o Bar >> >> }

DependencyLists ==
    { <<f>> : f \in FooEntries } \cup { <<b>> : b \in BarEntries }
    \cup { <<f, b>> : f \in { e \in FooEntries : e.version # <<V2>> }, b \in BarEntries }

Reports ==
    { ListReport(FALSE, problems, dependencies) :
         problems \in ProblemLists, dependencies \in DependencyLists }
    \cup { ListReport(TRUE, << << MissingTag \o <<BLANK>> \o Foo >> >>, dependencies) :
              dependencies \in { <<f>> : f \in FooEntries } }

Commands == <<World, RunLayer, lastScript, quickPick, pendingSaves, lastScriptRun, catalog>>
Debounce == <<delayer, validationEnabled>>

ValidateWorlds == { <<<<<<FolderA("file", "true", <<>>)>>>>, "fixture", FALSE, TRUE>> }

InitValidate ==
    /\ InitSession(ValidateWorlds)
    /\ document \in Manifests
    /\ savedManifest = <<>>
    /\ nodeModules = <<>>
    /\ validating = 0
    /\ diagnostics = <<>>
    /\ isClosed = FALSE
    /\ delayer = "idle"
    /\ validationEnabled = TRUE

\* doValidate(document) up to 'await getInstalledModules()'; validateDocument calls
\* it for a document that was saved or whose editor became active
doValidate ==
    /\ ~isClosed
    /\ validating < MaxPasses
    /\ validating' = validating + 1
    /\ ev' = [NoEvent EXCEPT !.op = "doValidate", !.text = document]
    /\ UNCHANGED <<Commands, Debounce, isClosed, document, savedManifest, nodeModules, diagnostics>>

\* doValidate after the report of getInstalledModules() arrived
ReportArrives ==
    /\ validating > 0
    /\ \E report \in Reports :
          \E r \in {validate(report, document, diagnostics)} :
              /\ diagnostics' = r.diagnostics
              /\ ev' = [NoEvent EXCEPT !.op = "validated", !.report = <<report>>,
                                       !.text = document, !.outcome = r.outcome,
                                       !.error = r.message, !.reporter = "npm ls",
                                       !.before = diagnostics]
    /\ validating' = validating - 1
    /\ UNCHANGED <<Commands, Debounce, isClosed, document, savedManifest, nodeModules>>

\* variant of ReportFails: the diagnostics are cleared when no report arrives
ReportFails_clears ==
    /\ validating > 0
    /\ validating' = validating - 1
    /\ diagnostics' = <<>>
    /\ ev' = [NoEvent EXCEPT !.op = "abandoned", !.text = document]
    /\ UNCHANGED <<Commands, Debounce, isClosed, document, savedManifest, nodeModules>>

\* doValidate after getInstalledModules() rejected: what npm printed is not JSON
ReportFails ==
    /\ validating > 0
    /\ validating' = validating - 1
    /\ ev' = [NoEvent EXCEPT !.op = "abandoned", !.text = document]
    /\ UNCHANGED <<Commands, Debounce, isClosed, document, savedManifest, nodeModules, diagnostics>>

\* the user changes the text of the package.json
EditDocument ==
    /\ \E text \in Manifests \ {document} : document' = text
    /\ ev' = [NoEvent EXCEPT !.op = "edit"]
    /\ UNCHANGED <<Commands, Debounce, isClosed, savedManifest, nodeModules, validating, diagnostics>>

NextValidate ==
    \/ doValidate
    \/ ReportArrives
    \/ ReportFails
    \/ EditDocument

SpecValidate == InitValidate /\ [][NextValidate]_vars

\* the user closes the editor of the package.json: no handler of the extension runs
\* (the one of workspace.onDidCloseTextDocument is commented out)
CloseDocument ==
    /\ ~isClosed
    /\ isClosed' = TRUE
    /\ ev' = [NoEvent EXCEPT !.op = "close"]
    /\ UNCHANGED <<Commands, Debounce, document, savedManifest, nodeModules, validating, diagnostics>>

\* the user opens the package.json again: onDidChangeActiveTextEditor validates it
OpenDocument ==
    /\ isClosed
    /\ validating < MaxPasses
    /\ isClosed' = FALSE
    /\ validating' = validating + 1
    /\ ev' = [NoEvent EXCEPT !.op = "doValidate", !.text = document]
    /\ UNCHANGED <<Commands, Debounce, document, savedManifest, nodeModules, diagnostics>>

NextCloseDocument ==
    \/ doValidate
    \/ ReportArrives
    \/ ReportFails
    \/ CloseDocument
    \/ OpenDocument

SpecCloseDocument == InitValidate /\ [][NextCloseDocument]_vars

----------------------------------------------------------------------------
(* The source ranges of texts of many shapes *)

\* the top-level properties the texts are made of
TextProperties ==
    { StringProperty(NameKey, <<"x">>),
      ObjectProperty(DependenciesKey, <<Dependency(Foo, R1)>>),
      ObjectProperty(DependenciesKey, <<Dependency(Foo, R1), Dependency(Foo, R2)>>),
      ObjectProperty(DependenciesKey, <<Dependency(Bar, R2), Dependency(Foo, R1)>>),
      ObjectProperty(DevDependenciesKey, <<Dependency(Foo, R2)>>),
      ObjectProperty(<<"scripts">>, <<Dependency(Foo, <<"tag">>)>>),
      StringProperty(DependenciesKey, <<"oops">>) }

\* the properties a text can end in
LastProperties ==
    TextProperties \cup {TruncatedProperty(DependenciesKey), TruncatedProperty(NameKey)}

\* texts of one or two top-level properties, and the texts without a root object
Texts ==
    { <<p>> : p \in LastProperties }
        \cup { <<p, q>> : p \in TextProperties, q \in LastProperties }
        \cup {NoText, LiteralText(<<"x">>)}

InitParse ==
    /\ InitSession(ValidateWorlds)
    /\ document \in Texts
    /\ savedManifest = <<>>
    /\ nodeModules = <<>>
    /\ validating = 0
    /\ diagnostics = <<>>
    /\ isClosed = FALSE
    /\ delayer = "idle"
    /\ validationEnabled = TRUE

\* parseSourceRanges(document.getText())
applyParseSourceRanges ==
    /\ ev.op = "activate"
    /\ \E report \in {r \in Reports : ~r.invalid /\ anyModuleErrors(r)} :
         \E r \in {validate(report, document, <<>>)} :
             ev' = [NoEvent EXCEPT !.op = "parseSourceRanges", !.text = document,
                                   !.report = <<report>>,
                                   !.ranges = <<parseSourceRanges(document)>>,
                                   !.outcome = r.outcome, !.error = r.message]
    /\ UNCHANGED <<Commands, Debounce, document, savedManifest, nodeModules, validating,
                   diagnostics, isClosed>>

NextParse == applyParseSourceRanges

SpecParse == InitParse /\ [][NextParse]_vars

----------------------------------------------------------------------------
(* The integrated terminal and the quick fix commands *)

\* the arguments of a quick fix: the directory of the package.json, then the
\* module and the options
QuickFixArguments ==
    { <<RootA, <<"foo">> >>, <<pathJoin(RootA, F2), <<"foo">>, <<"--save">> >> }

\* runNpmCommandWithArguments(cmd, args) up to the call of workspace.saveAll()
runNpmCommandWithArguments(op, cmd, args) ==
    LET dir == Head(args)
        args1 == Tail(args)
        call == npmInvocation(<<cmd>> \o args1, dir, FALSE, runSilentSetting)
    IN  /\ CanDispatch(<<call>>)
        /\ pendingSaves' = Append(pendingSaves, call)
        /\ ev' = [NoEvent EXCEPT !.op = op, !.dispatched = <<call>>]
        /\ UNCHANGED <<World, ValidationLayer, RunLayer, lastScript, quickPick, lastScriptRun,
                       catalog>>

runNpmInstallInOutputWindow ==
    \E args \in QuickFixArguments :
        runNpmCommandWithArguments("runNpmInstallInOutputWindow", <<"install">>, args)

runNpmUninstallInOutputWindow ==
    \E args \in QuickFixArguments :
        runNpmCommandWithArguments("runNpmUninstallInOutputWindow", <<"uninstall">>, args)

\* one folder with scripts in the root and in f2, npm.runInTerminal set or not
TerminalWorlds ==
    { <<<<<<FolderA("file", "true", <<F2>>)>>>>, "mixed", FALSE, inTerminal>> :
        inTerminal \in {TRUE, FALSE} }

InitTerminal == InitIn(TerminalWorlds)

NextTerminal ==
    \/ runNpmTest
    \/ PickEntry
    \/ CancelPick
    \/ runNpmInstallInOutputWindow
    \/ runNpmUninstallInOutputWindow
    \/ SaveAllThenTerminal
    \/ SaveAllThenOutputWindow
    \/ ProcessExit
    \/ OnDidCloseTerminal

SpecTerminal == InitTerminal /\ [][NextTerminal]_vars

----------------------------------------------------------------------------
(* Script discovery for a single workspace root (the first revision) *)

CannotRead(fileName) == <<"Cannot read '">> \o fileName \o <<"'">>
NoScriptsDefined == <<"No scripts are defined">>

RECURSIVE readScripts_skipUnreadable(_, _, _, _)
\* variant of readScripts: a package.json that cannot be read adds nothing
readScripts_skipUnreadable(rootPath, fs, dirs, scripts) ==
    IF dirs = <<>>
    THEN IF scripts = <<>>
         THEN [scripts |-> <<>>, message |-> <<NoScriptsDefined>>]
         ELSE [scripts |-> <<scripts>>, message |-> <<>>]
    ELSE LET dir == Head(dirs)
             json == packageJson(fs, dir)
         IN  IF json.status = "ok" /\ json.hasScripts
             THEN readScripts_skipUnreadable(rootPath, fs, Tail(dirs),
                      scripts \o [i \in 1..Len(json.scripts) |->
                                     Description(dir, substring(dir, Len(rootPath) + 1),
                                                 json.scripts[i].key, json.scripts[i].body)])
             ELSE readScripts_skipUnreadable(rootPath, fs, Tail(dirs), scripts)

RECURSIVE readScripts(_, _, _, _)
\* readScripts() from the directories dirs on: scripts is <<>> (undefined) or
\* <<the list>>, message is <<>> or <<the information message shown>>
readScripts(rootPath, fs, dirs, scripts) ==
    IF dirs = <<>>
    THEN IF scripts = <<>>
         THEN [scripts |-> <<>>, message |-> <<NoScriptsDefined>>]
         ELSE [scripts |-> <<scripts>>, message |-> <<>>]
    ELSE LET dir == Head(dirs)
             fileName == pathJoin(dir, <<"package.json">>)
             json == packageJson(fs, dir)
         IN  IF json.status # "ok"
             THEN [scripts |-> <<>>, message |-> <<CannotRead(fileName)>>]
             ELSE IF json.hasScripts
             THEN readScripts(rootPath, fs, Tail(dirs),
                      scripts \o [i \in 1..Len(json.scripts) |->
                                     Description(dir, substring(dir, Len(rootPath) + 1),
                                                 json.scripts[i].key, json.scripts[i].body)])
             ELSE readScripts(rootPath, fs, Tail(dirs), scripts)

\* the Script object runNpmScript pushes for s
singleTargetEntry(s) ==
    [label |-> IF Truthy(s.relativePath)
               THEN s.relativePath \o <<":", BLANK>> \o s.name
               ELSE s.name,
     description |-> s.cmd,
     scriptName |-> s.name,
     cwd |-> s.absolutePath]

\* workspace.rootPath and its settings
rootFolder == workspaceFolders[1][1]

\* runNpmScript(): the list of readScripts() is shown in a quick pick
runNpmScriptSingleTarget ==
    /\ \E r \in {readScripts(rootFolder.fsPath, fileSystem,
                              getIncludedDirectories(rootFolder), <<>>)} :
          /\ quickPick' = IF r.scripts # <<>>
                          THEN <<[i \in 1..Len(r.scripts[1]) |->
                                     singleTargetEntry(r.scripts[1][i])]>>
                          ELSE quickPick
          /\ ev' = [NoEvent EXCEPT !.op = "runNpmScript",
                                   !.dirs = getIncludedDirectories(rootFolder),
                                   !.shown = (r.scripts # <<>>),
                                   !.error = r.message]
    /\ UNCHANGED <<World, ValidationLayer, RunLayer, lastScript, pendingSaves, lastScriptRun,
                   catalog>>

\* the callback of window.showQuickPick(scriptList) with a script: script.execute()
\* and runNpmCommand up to workspace.saveAll()
PickSingleTarget ==
    /\ quickPick # <<>>
    /\ pendingSaves = <<>>
    /\ \E i \in 1..Len(quickPick[1]) :
          LET script == quickPick[1][i]
              args == <<RUN_SCRIPT, script.scriptName>>
                      \o (IF runSilentSetting THEN << <<"--silent">> >> ELSE <<>>)
              call == [args |-> args, cwd |-> script.cwd]
          IN  /\ lastScript' = <<script>>
              /\ pendingSaves' = <<call>>
              /\ lastScriptRun' = <<call>>
              /\ ev' = [NoEvent EXCEPT !.op = "pick", !.scriptList = quickPick[1],
                                       !.choice = i, !.dispatched = <<call>>]
    /\ quickPick' = <<>>
    /\ UNCHANGED <<World, ValidationLayer, RunLayer, catalog>>

\* workspace.saveAll().then(...) of runNpmCommand: runInTerminal('npm', args, ...)
\* of the package run-in-terminal, or runCommandInOutputWindow(args, cwd)
SaveAllSingleTarget ==
    /\ pendingSaves # <<>>
    /\ pendingSaves' = Tail(pendingSaves)
    /\ LET call == Head(pendingSaves)
           cmd == outputWindowCmd(call.args)
       IN  IF runInTerminalSetting
           THEN /\ ev' = [NoEvent EXCEPT !.op = "runCommandInTerminal",
                                         !.sent = <<cmd>>, !.cwd = call.cwd]
                /\ UNCHANGED <<runningProcesses, liveProcesses>>
           ELSE \E pid \in Pids \ DOMAIN liveProcesses :
                   /\ runningProcesses' =
                         [q \in DOMAIN runningProcesses \cup {pid} |->
                             IF q = pid THEN cmd ELSE runningProcesses[q]]
                   /\ liveProcesses' =
                         [q \in DOMAIN liveProcesses \cup {pid} |->
                             IF q = pid THEN cmd ELSE liveProcesses[q]]
                   /\ ev' = [NoEvent EXCEPT !.op = "runCommandInOutputWindow",
                                            !.sent = <<cmd>>, !.cwd = call.cwd, !.pid = pid]
    /\ UNCHANGED <<World, ValidationLayer, lastScript, quickPick, terminal, npmTerminals, processPick,
                   lastScriptRun, catalog>>

\* one workspace root with its settings, on either set of package.json files
SingleTargetWorlds ==
    { <<<<<<folder>>>>, fs, silent, inTerminal>> :
        folder \in { FolderA("file", u, i) : u \in UseRootValues,
                                             i \in {<<>>, <<F1>>, <<F2>>, <<F1, F2>>, <<F2, F1>>} }
                   \cup { FolderB("file", u, i) : u \in {"true", "false"},
                                                 i \in {<<>>, <<F1>>} },
        fs \in FileSystems, silent \in {TRUE, FALSE}, inTerminal \in {TRUE, FALSE} }

InitSingleTarget == InitIn(SingleTargetWorlds)

NextSingleTarget ==
    \/ runNpmScriptSingleTarget
    \/ PickSingleTarget
    \/ CancelPick
    \/ SaveAllSingleTarget
    \/ ProcessExit

SpecSingleTarget == InitSingleTarget /\ [][NextSingleTarget]_vars

----------------------------------------------------------------------------
(* Validation requests: the delayer and the setting npm.validate.enable *)

\* ThrottledDelayer.trigger(task): the task replaces the one that waits, and the
\* quiet period starts again
trigger(d) == "scheduled"

\* the quiet period of the delayer is over and no earlier task is still running
fires(d, running) == d = "scheduled" /\ running = 0

\* what brings validateDocument about: a save, a change of the active editor,
\* the exit of a child process, the command npm-script.validate
Triggers == {"save", "editor", "exit", "command"}

InitDebounce ==
    /\ InitSession(ValidateWorlds)
    /\ document \in Manifests
    /\ savedManifest = <<>>
    /\ nodeModules = <<>>
    /\ validating = 0
    /\ diagnostics = <<>>
    /\ isClosed = FALSE
    /\ delayer \in {"idle", trigger("idle")}
    /\ validationEnabled = TRUE

\* variant of validateDocument: doValidate is called at once, without the delayer
validateDocument_direct ==
    \E by \in Triggers :
        /\ validating' = IF validationEnabled /\ validating < MaxPasses
                         THEN validating + 1 ELSE validating
        /\ ev' = [NoEvent EXCEPT !.op = "validateDocument", !.reporter = by]
        /\ UNCHANGED <<Commands, Debounce, document, savedManifest, nodeModules,
                       diagnostics, isClosed>>

\* validateDocument(document) for the top-level package.json
validateDocument ==
    \E by \in Triggers :
        /\ delayer' = IF validationEnabled THEN trigger(delayer) ELSE delayer
        /\ ev' = [NoEvent EXCEPT !.op = "validateDocument", !.reporter = by]
        /\ UNCHANGED <<Commands, validationEnabled, document, savedManifest, nodeModules,
                       validating, diagnostics, isClosed>>

\* the delayer runs its task, () => doValidate(document), up to the await
DelayerFires ==
    /\ fires(delayer, validating)
    /\ delayer' = "idle"
    /\ validating' = validating + 1
    /\ ev' = [NoEvent EXCEPT !.op = "doValidate", !.text = document]
    /\ UNCHANGED <<Commands, validationEnabled, document, savedManifest, nodeModules,
                   diagnostics, isClosed>>

\* loadConfiguration(context) after npm.validate.enable changed
loadConfiguration ==
    /\ validationEnabled' = ~validationEnabled
    /\ diagnostics' = <<>>
    /\ delayer' = IF validationEnabled' THEN trigger(delayer) ELSE delayer
    /\ ev' = [NoEvent EXCEPT !.op = "loadConfiguration"]
    /\ UNCHANGED <<Commands, document, savedManifest, nodeModules, validating, isClosed>>

NextDebounce ==
    \/ validateDocument
    \/ DelayerFires
    \/ ReportArrives
    \/ ReportFails
    \/ EditDocument
    \/ loadConfiguration

SpecDebounce == InitDebounce /\ [][NextDebounce]_vars

----------------------------------------------------------------------------
(* The installed-module report read from node_modules *)

\* the package.json of an installed module: name, version and _requiredBy
InstalledModule(name, version, requiredBy) ==
    [name |-> name, version |-> version, requiredBy |-> requiredBy]

RootDependant == <<"/">>
UserDependant == <<"#", "USER">>
ModuleDependant(name) == <<"/">> \o name

\* semver.satisfies(version, range) for the versions and ranges at hand
satisfies(version, range) ==
    \/ version = V1 /\ range = R1
    \/ version = V2 /\ range = R2

RECURSIVE assign(_, _)
\* Object.assign(target, source) on lists of [name, ...] in the order of the keys
assign(target, source) ==
    IF source = <<>> THEN target
    ELSE LET one == Head(source)
             at == { i \in 1..Len(target) : target[i].name = one.name }
         IN  assign(IF at = {} THEN Append(target, one)
                    ELSE [i \in 1..Len(target) |-> IF i \in at THEN one ELSE target[i]],
                    Tail(source))

RECURSIVE entriesOfProperty(_, _)
\* JSON.parse(text)[key], {} when undefined: the entries of the last property with the key
entriesOfProperty(manifest, key) ==
    IF manifest = <<>> THEN <<>>
    ELSE IF Last(manifest).key = key THEN Last(manifest).entries
    ELSE entriesOfProperty(Front(manifest), key)

\* Object.assign(Object.create(null), prod, dev)
wantedDependencies(manifest) ==
    assign(assign(<<>>, entriesOfProperty(manifest, DependenciesKey)),
           entriesOfProperty(manifest, DevDependenciesKey))

\* wantedDependencies[name]: <<>> (undefined) or <<range>>
requestedOf(wanted, name) ==
    LET found == SelectSeq(wanted, LAMBDA w : w.name = name)
    IN  IF found = <<>> THEN <<>> ELSE <<found[1].range>>

isDirect(dep) == Len(dep) = 1 \/ dep[1] = "#"

\* makeReport(pkgJson): the entry of one installed module; requested is tested
\* for truthiness, so the range "" counts like no range
makeReport(module, wanted) ==
    LET requested == requestedOf(wanted, module.name)
        isRequested == requested # <<>> /\ Truthy(requested[1])
        hasDirect == \E i \in 1..Len(module.requiredBy) : isDirect(module.requiredBy[i])
        hasTransitive == \E i \in 1..Len(module.requiredBy) : ~isDirect(module.requiredBy[i])
    IN  ReportEntry(module.name, <<module.version>>, FALSE,
                    hasDirect /\ isRequested
                              /\ ~satisfies(module.version, requested[1]),
                    hasDirect /\ ~isRequested /\ ~hasTransitive)

RECURSIVE missingEntries(_)
\* the reduce over the wanted names: each name is put in front of the ones before
missingEntries(wanted) ==
    IF wanted = <<>> THEN <<>>
    ELSE <<ReportEntry(Last(wanted).name, <<>>, TRUE, FALSE, FALSE)>>
         \o missingEntries(Front(wanted))

RECURSIVE problemsOf(_)
\* the switch of merge(): one tag for an entry that is missing, invalid or extraneous
problemsOf(dependencies) ==
    IF dependencies = <<>> THEN <<>>
    ELSE (IF Head(dependencies).missing THEN <<MissingTag>>
          ELSE IF Head(dependencies).invalid THEN <<InvalidTag>>
          ELSE IF Head(dependencies).extraneous THEN <<ExtraneousTag>>
          ELSE <<>>)
         \o problemsOf(Tail(dependencies))

\* readInstalledModulesRaw(cwd) for the package.json and the node_modules of cwd
readInstalledModulesRaw(manifest, modules) ==
    LET wanted == wantedDependencies(manifest)
        reports == [i \in 1..Len(modules) |-> makeReport(modules[i], wanted)]
        dependencies == assign(missingEntries(wanted), reports)
    IN  ListReport(FALSE, <<problemsOf(dependencies)>>, dependencies)

\* the package.json files on disk: the dependencies are objects
DiskManifests ==
    { m \in Manifests : \A i \in 1..Len(m) : m[i].type = "object" \/ m[i].key = NameKey }
    \cup { <<ObjectProperty(DependenciesKey, <<Dependency(Foo, EmptyStr)>>)>> }

\* what node_modules holds
Installations ==
    { <<>>,
      <<InstalledModule(Foo, V1, <<RootDependant>>)>>,
      <<InstalledModule(Foo, V2, <<RootDependant>>)>>,
      <<InstalledModule(Bar, V1, <<UserDependant>>)>>,
      <<InstalledModule(Foo, V1, <<RootDependant>>), InstalledModule(Bar, V1, <<UserDependant>>)>>,
      <<InstalledModule(Bar, V1, <<RootDependant, ModuleDependant(Foo)>>),
        InstalledModule(Foo, V1, <<RootDependant>>)>>,
      <<InstalledModule(Bar, V2, <<UserDependant>>),
        InstalledModule(Foo, V2, <<ModuleDependant(Bar)>>)>> }

InitEndToEnd ==
    /\ InitSession(ValidateWorlds)
    /\ document \in DiskManifests
    /\ savedManifest = document
    /\ nodeModules \in Installations
    /\ validating = 0
    /\ diagnostics = <<>>
    /\ isClosed = FALSE
    /\ delayer = "idle"
    /\ validationEnabled = TRUE

\* doValidate after the report of readInstalledModulesRaw arrived
RawReportArrives ==
    /\ validating > 0
    /\ \E report \in {readInstalledModulesRaw(savedManifest, nodeModules)} :
          \E r \in {validate(report, document, diagnostics)} :
              /\ diagnostics' = r.diagnostics
              /\ ev' = [NoEvent EXCEPT !.op = "validated", !.report = <<report>>,
                                       !.text = document, !.outcome = r.outcome,
                                       !.error = r.message, !.reporter = "raw",
                                       !.before = diagnostics]
    /\ validating' = validating - 1
    /\ UNCHANGED <<Commands, Debounce, isClosed, document, savedManifest, nodeModules>>

\* the user changes the text of the package.json, dependencies staying objects
EditManifest ==
    /\ \E text \in DiskManifests \ {document} : document' = text
    /\ ev' = [NoEvent EXCEPT !.op = "edit"]
    /\ UNCHANGED <<Commands, Debounce, isClosed, savedManifest, nodeModules, validating, diagnostics>>

\* the user saves the package.json
SaveDocument ==
    /\ savedManifest # document
    /\ savedManifest' = document
    /\ ev' = [NoEvent EXCEPT !.op = "save"]
    /\ UNCHANGED <<Commands, Debounce, isClosed, document, nodeModules, validating, diagnostics>>

NextEndToEnd ==
    \/ doValidate
    \/ RawReportArrives
    \/ EditManifest
    \/ SaveDocument

SpecEndToEnd == InitEndToEnd /\ [][NextEndToEnd]_vars

----------------------------------------------------------------------------
(* A whole session: selection, child processes, terminate-script and validation *)

SessionWorlds == { <<<<<<FolderA("file", "true", <<F2>>)>>>>, "mixed", FALSE, FALSE>> }

InitWholeSession ==
    /\ InitSession(SessionWorlds)
    /\ document = <<StringProperty(NameKey, <<"x">>),
                    ObjectProperty(DependenciesKey, <<Dependency(Foo, R1)>>)>>
    /\ savedManifest = document
    /\ nodeModules = <<InstalledModule(Foo, V2, <<RootDependant>>)>>
    /\ validating = 0
    /\ diagnostics = <<>>
    /\ isClosed = FALSE
    /\ delayer = "idle"
    /\ validationEnabled = TRUE

NextWholeSession ==
    \/ runNpmTest
    \/ runNpmScript
    \/ rerunLastScript
    \/ PickEntry
    \/ CancelPick
    \/ SaveAllThenOutputWindow
    \/ ProcessExit
    \/ terminateScript
    \/ PickProcess
    \/ CancelProcessPick
    \/ doValidate
    \/ RawReportArrives

SpecWholeSession == InitWholeSession /\ [][NextWholeSession]_vars

----------------------------------------------------------------------------
(* Vocabulary of the properties *)

FixedFamilyOps ==
    {"runNpmInstall", "runNpmTest", "runNpmStart", "runNpmBuild", "runNpmAudit",
     "runNpmOutdated", "runNpmInit"}

\* the handlers that go through runNpmCommandInPackages (rerun only when it falls back)
CommandOps == FixedFamilyOps \cup {"runNpmScript", "rerunLastScript"}

\* the command family a handler stands for
FamilyName(op) ==
    CASE op = "runNpmInstall" -> <<"install">>
      [] op = "runNpmTest" -> <<"test">>
      [] op = "runNpmStart" -> <<"start">>
      [] op = "runNpmBuild" -> <<"build">>
      [] op = "runNpmAudit" -> <<"audit">>
      [] op = "runNpmOutdated" -> <<"outdated">>
      [] op = "runNpmInit" -> <<"init">>
      [] OTHER -> RUN_SCRIPT

\* the last handler went through runNpmCommandInPackages
ThroughPackages == ev.op \in CommandOps /\ ev.command # <<>>

IsScriptFamily == ev.command # <<>> /\ ev.command[1] = RUN_SCRIPT

\* an extra subdirectory joined to its root
JoinedTo(root, sub) == IF sub = Dot THEN root ELSE root \o <<SEP>> \o sub

\* the number of directories a workspace root contributes
ContributionOf(folder) ==
    IF folder.scheme = "file"
    THEN (IF folder.useRootDirectory = "false" THEN 0 ELSE 1) + Len(folder.includeDirectories)
    ELSE 0

RECURSIVE ContributionBefore(_, _)
ContributionBefore(folders, k) ==
    IF k <= 1 THEN 0
    ELSE ContributionBefore(folders, k - 1) + ContributionOf(folders[k - 1])

\* ds is the directory set of the workspace wf
IsDirectorySet(wf, ds) ==
    IF wf = <<>> THEN ds = <<>>
    ELSE LET folders == wf[1]
         IN  /\ Len(ds) = ContributionBefore(folders, Len(folders) + 1)
             /\ \A k \in 1..Len(folders) :
                   folders[k].scheme = "file" =>
                      LET base == ContributionBefore(folders, k)
                          r == IF folders[k].useRootDirectory = "false" THEN 0 ELSE 1
                          inc == folders[k].includeDirectories
                      IN  /\ r = 1 => ds[base + 1] = folders[k].fsPath
                          /\ \A j \in 1..Len(inc) :
                                ds[base + r + j] = JoinedTo(folders[k].fsPath, inc[j])

DeclaredScripts(fs, dir, command) ==
    LET m == packageJson(fs, dir)
        wanted(e) == Len(command) < 2 \/ e.key = command[2]
    IN  IF m.status = "ok" /\ m.hasScripts THEN SelectSeq(m.scripts, wanted) ELSE <<>>

RECURSIVE DeclaredBefore(_, _, _, _)
DeclaredBefore(fs, dirs, command, k) ==
    IF k <= 1 THEN 0
    ELSE DeclaredBefore(fs, dirs, command, k - 1)
         + Len(DeclaredScripts(fs, dirs[k - 1], command))

C3_FixedFamilyCatalog ==
    (ev.op \in FixedFamilyOps) =>
        /\ Len(ev.descriptions) = Len(ev.dirs)
        /\ \A i \in 1..Len(ev.dirs) :
              /\ ev.descriptions[i].name = FamilyName(ev.op)
              /\ ev.descriptions[i].absolutePath = ev.dirs[i]

\* C4: a catalog of exactly one entry is executed at once and no quick pick
\* is shown, for script and fixed families, with or without allowAll.
C4_SingleEntryRuns ==
    [][ (ev'.op \in CommandOps /\ ev'.command # <<>> /\ Len(ev'.descriptions) = 1) =>
           /\ ~ev'.shown
           /\ quickPick' = quickPick
           /\ ev'.error = <<>>
           /\ Len(ev'.dispatched) = 1
           /\ ev'.dispatched[1].cwd = ev'.descriptions[1].absolutePath
           /\ ev'.dispatched[1].args[1] = ev'.command[1]
           /\ pendingSaves' = pendingSaves \o ev'.dispatched ]_vars

\* a fixed family with allowAll over one directory
C4_Witness ==
    /\ ev.op = "runNpmTest" /\ ev.allowAll
    /\ Len(ev.descriptions) = 1
    /\ Len(ev.dispatched) = 1
    /\ pendingSaves = ev.dispatched
    /\ quickPick = <<>>

\* C5: with an empty catalog nothing is executed, no quick pick is shown and
\* the error names the missing script (script family) or the missing
\* command family (fixed family).
C5_NotFoundNamesSought ==
    (ThroughPackages /\ Len(ev.descriptions) = 0) =>
        /\ ev.dispatched = <<>>
        /\ ~ev.shown
        /\ ev.error = <<IF IsScriptFamily THEN FailedToFindScript(ev.command)
                        ELSE FailedToFindHandler(ev.command)>>

IsAll(s) == s.kind = "all"

\* list shows the descriptions in catalog order from position first on
FollowsCatalog(list, first, descriptions) ==
    /\ Len(list) = first - 1 + Len(descriptions)
    /\ \A i \in 1..Len(descriptions) :
          /\ ~IsAll(list[first - 1 + i])
          /\ list[first - 1 + i].scriptName = descriptions[i].name
          /\ list[first - 1 + i].cwd = descriptions[i].absolutePath

\* C6: the run-all entry is in the presented list exactly when allowAll is
\* set and the catalog has at least 2 entries; it is then the first entry
\* and the real entries follow in catalog order (n directories give n + 1
\* choices); a script-family selection never shows it.
C6_RunAllEntry ==
    (ThroughPackages /\ Len(ev.descriptions) >= 2) =>
        /\ ev.shown
        /\ quickPick = <<ev.scriptList>>
        /\ LET list == quickPick[1]
               hasAll == \E i \in 1..Len(list) : IsAll(list[i])
           IN  /\ hasAll <=> ev.allowAll
               /\ hasAll => /\ IsAll(list[1])
                            /\ list[1].label = <<"All">>
                            /\ FollowsCatalog(list, 2, ev.descriptions)
               /\ ~hasAll => FollowsCatalog(list, 1, ev.descriptions)
               /\ IsScriptFamily => ~hasAll
               /\ ev.op \in FixedFamilyOps => Len(list) = Len(ev.dirs) + 1

\* npm test over two directories shows three choices, All first
C6_Witness ==
    /\ ev.op = "runNpmTest"
    /\ Len(ev.dirs) = 2
    /\ quickPick # <<>> /\ Len(quickPick[1]) = 3
    /\ IsAll(quickPick[1][1])

\* C7: invoking the run-all entry runs every real entry of the list exactly
\* once, in list order and each in its own directory, and never the run-all
\* entry itself; a child process that exits with a failure leaves the calls
\* still waiting and the other child processes as they are.
C7_RunAll ==
    [][ /\ (ev'.op = "pick" /\ IsAll(ev'.scriptList[ev'.choice])) =>
              LET list == ev'.scriptList
              IN  /\ Len(ev'.dispatched) = Len(list) - 1
                  /\ \A i \in 1..(Len(list) - 1) :
                        /\ ~IsAll(list[i + 1])
                        /\ ev'.dispatched[i] # SelfInvocation
                        /\ ev'.dispatched[i].cwd = list[i + 1].cwd
                        /\ ev'.dispatched[i].args[1] = list[i + 1].command[1]
                  /\ pendingSaves' = pendingSaves \o ev'.dispatched
        /\ (ev'.op = "exit" /\ ev'.error = <<"1">>) =>
              /\ pendingSaves' = pendingSaves
              /\ \A q \in DOMAIN runningProcesses \ {ev'.pid} :
                    /\ q \in DOMAIN runningProcesses'
                    /\ runningProcesses'[q] = runningProcesses[q] ]_vars

\* All was chosen among the tests of two directories: two calls, one per directory
C7_Witness ==
    /\ ev.op = "pick" /\ IsAll(ev.scriptList[ev.choice])
    /\ Len(ev.scriptList) = 3
    /\ Len(ev.dispatched) = 2
    /\ ev.dispatched[1].cwd = RootA \o <<SEP>> \o F1
    /\ ev.dispatched[2].cwd = RootA \o <<SEP>> \o F2
    /\ pendingSaves = ev.dispatched

\* the root that owns a directory: <<>> or <<name>>
OwnerName(wf, dir) ==
    LET folders == IF wf = <<>> THEN <<>> ELSE wf[1]
        owners == { i \in 1..Len(folders) :
                      folders[i].scheme = "file" /\ startsWith(dir, folders[i].fsPath) }
    IN  IF owners = {} THEN <<>> ELSE <<folders[CHOOSE i \in owners : TRUE].name>>

\* the label of a description, with the given separator after the relative path
LabelWith(wf, d, separator) ==
    LET base == IF Truthy(d.relativePath) THEN d.relativePath \o separator \o d.name
                ELSE d.name
        owner == OwnerName(wf, d.absolutePath)
        multi == wf # <<>> /\ Len(wf[1]) > 1
    IN  IF multi /\ owner # <<>> THEN owner[1] \o <<":", BLANK>> \o base ELSE base

\* C8: the label of a real entry is its name when the descriptor has no
\* relative path, else `<relativePath>: <name>`; with more than one
\* workspace root it is prefixed with the name of the owning root.
C8_EntryLabel ==
    quickPick # <<>> =>
        \A i \in 1..Len(catalog) :
            quickPick[1][Len(quickPick[1]) - Len(catalog) + i].label
                = LabelWith(workspaceFolders, catalog[i], <<":", BLANK>>)

\* C9: choosing a real entry dispatches exactly one call, with the absolute
\* directory of the chosen descriptor as working directory, and the command
\* is then run in that directory.
C9_PickOne ==
    [][ /\ (ev'.op = "pick" /\ ~IsAll(ev'.scriptList[ev'.choice])) =>
              LET k == ev'.choice - (Len(quickPick[1]) - Len(catalog))
              IN  /\ Len(ev'.dispatched) = 1
                  /\ ev'.dispatched[1].cwd = catalog[k].absolutePath
                  /\ ev'.dispatched[1].args[1] = ev'.scriptList[ev'.choice].command[1]
                  /\ pendingSaves' = pendingSaves \o ev'.dispatched
                  /\ quickPick' = <<>>
        /\ (ev'.op = "runCommandInIntegratedTerminal") =>
              \E i \in 1..Len(pendingSaves) :
                  /\ Len(pendingSaves') = Len(pendingSaves) - 1
                  /\ Len(ev'.sent) = 2
                  /\ ev'.sent[1] = <<"cd", BLANK, QUOTE>> \o pendingSaves[i].cwd \o <<QUOTE>>
                  /\ ev'.sent[2] = <<"npm", BLANK>> \o joinBlank(pendingSaves[i].args) ]_vars

\* the third choice (the second directory) was picked from a list headed by All
C9_Witness ==
    /\ ev.op = "pick" /\ ev.choice = 3
    /\ IsAll(ev.scriptList[1])
    /\ ev.scriptList[2].cwd # ev.scriptList[3].cwd
    /\ Len(ev.dispatched) = 1
    /\ ev.dispatched[1].cwd = ev.scriptList[3].cwd

\* C10: rerun-last runs the most recently run script-family entry again
\* (same script, same directory) without a quick pick; when no script-family
\* entry was run yet it does what the run-script selection does.
C10_RerunLast ==
    [][ (ev'.op = "rerunLastScript") =>
           IF lastScriptRun # <<>>
           THEN /\ pendingSaves' = pendingSaves \o lastScriptRun
                /\ ev'.dispatched = lastScriptRun
                /\ ~ev'.shown
                /\ quickPick' = quickPick
                /\ lastScriptRun' = lastScriptRun
           ELSE \E r \in {runNpmCommandInPackages(workspaceFolders, fileSystem, <<RUN_SCRIPT>>,
                                                  FALSE, FALSE, <<>>, <<>>, runSilentSetting)} :
                   /\ pendingSaves' = pendingSaves \o r.runs
                   /\ quickPick' = (IF r.shown THEN <<r.scriptList>> ELSE quickPick)
                   /\ lastScript' = r.last
                   /\ ev'.shown = r.shown /\ ev'.error = r.error
                   /\ ev'.dispatched = r.runs ]_vars

\* a script-family entry was run and rerun-last then ran it again, in the same
\* directory and without a quick pick
C10_Witness ==
    /\ ev.op = "rerunLastScript"
    /\ ev.descriptions = <<>> /\ ~ev.shown /\ ev.error = <<>>
    /\ Len(ev.dispatched) = 1
    /\ ev.dispatched[1].args[1] = RUN_SCRIPT
    /\ ev.dispatched = lastScriptRun
    /\ lastScript # <<>> /\ lastScript[1].cwd = ev.dispatched[1].cwd

\* C11: after any sequence of spawns and exits of output-window commands the
\* tracked-process map has exactly one entry per spawned process that has not
\* exited, keyed by its pid and carrying its command line; an exit for any
\* reason removes that entry, so the map is empty once all have exited.
C11_TrackedProcesses ==
    /\ DOMAIN runningProcesses = DOMAIN liveProcesses
    /\ \A pid \in DOMAIN liveProcesses : runningProcesses[pid] = liveProcesses[pid]
    /\ (ev.op = "runCommandInOutputWindow") =>
           /\ ev.pid \in DOMAIN runningProcesses
           /\ runningProcesses[ev.pid] = ev.sent[1]
    /\ (ev.op = "exit") => ev.pid \notin DOMAIN runningProcesses

\* a process exited with an error code while a process with another command
\* line is still running and tracked
C11_Witness ==
    /\ ev.op = "exit" /\ ev.error = <<"1">>
    /\ Cardinality(DOMAIN liveProcesses) = 1
    /\ \E pid \in DOMAIN runningProcesses :
          runningProcesses[pid] = outputWindowCmd(<< <<"start">> >>)

\* C12: terminate-script while npm.runInTerminal is set sends no signal, shows
\* no list of processes, shows a message and leaves the tracked processes as
\* they are.
C12_TerminateInTerminalMode ==
    [][ (ev'.op = "terminateScript" /\ runInTerminalSetting) =>
           /\ ev'.signal = <<>>
           /\ ~ev'.shown /\ ev'.items = {}
           /\ processPick' = processPick
           /\ ev'.error # <<>>
           /\ runningProcesses' = runningProcesses ]_vars

\* terminate-script answered with the message while a child process is running
C12_Witness ==
    /\ ev.op = "terminateScript"
    /\ runInTerminalSetting
    /\ ev.error = <<KillingOnlySupported>>
    /\ DOMAIN runningProcesses # {}
    /\ processPick = <<>>

----------------------------------------------------------------------------
(* Vocabulary of the validation properties *)

\* the top-level dependencies and devDependencies objects of the text
DependencyBlocks(text) ==
    LET nodes == parseTree(text)
    IN  { nodes[i] : i \in { k \in 1..Len(nodes) : /\ isDependency(nodes[k].key.value)
                                                    /\ nodes[k].value.children # <<>> } }

EntryNodesOf(block) ==
    { block.value.children[1][j] : j \in 1..Len(block.value.children[1]) }

\* the nodes of the text that declare name under dependencies or devDependencies
DeclarationsOf(text, name) ==
    { n \in UNION { EntryNodesOf(b) : b \in DependencyBlocks(text) } : n.name.value = name }

\* the range of a token of the text
SpanOf(token) == [start |-> token.offset, end |-> token.offset + token.length]

\* the messages a diagnostic about a module may carry
MessagesAbout(name) ==
    {NotInstalled(name), Extraneous(name)}
    \cup { InstalledVersionInvalid(name, v) : v \in {<<>>, <<V1>>, <<V2>>} }

\* the diagnostics among ds that are about the module
DiagnosticsAbout(ds, name) == { ds[i] : i \in { k \in 1..Len(ds) : ds[k].message \in MessagesAbout(name) } }

\* how many diagnostics of ds are about the module
CountAbout(ds, name) == Cardinality({ k \in 1..Len(ds) : ds[k].message \in MessagesAbout(name) })

\* the entries of the report of the pass that just ended
EntriesOf(e) == { e.report[1].dependencies[i] : i \in 1..Len(e.report[1].dependencies) }

\* a problem tag of the report names a missing, invalid or extraneous module
HasProblemTag(report) ==
    /\ report.problems # <<>>
    /\ \E i \in 1..Len(report.problems[1]) :
          report.problems[1][i][1] \in {"missing:", "invalid:", "extraneous:"}

C15_ExclusiveClassification ==
    (ev.op = "validated") =>
        \A entry \in EntriesOf(ev) :
            /\ CountAbout(diagnostics, entry.name) <= 1
            /\ entry.missing =>
                  \A d \in DiagnosticsAbout(diagnostics, entry.name) :
                      d.message = <<"Module '">> \o entry.name \o <<"' is not installed">>
            /\ (entry.invalid /\ ~entry.missing) =>
                  \A d \in DiagnosticsAbout(diagnostics, entry.name) :
                      d.message \in { InstalledVersionInvalid(entry.name, v) :
                                         v \in {<<>>, <<V1>>, <<V2>>} }

\* foo is reported missing and invalid at once and has the not-installed diagnostic
C15_Witness ==
    /\ ev.op = "validated" /\ ev.outcome = "published"
    /\ \E entry \in EntriesOf(ev) :
          /\ entry.name = Foo /\ entry.missing /\ entry.invalid
    /\ CountAbout(diagnostics, Foo) = 1
    /\ \E d \in DiagnosticsAbout(diagnostics, Foo) : d.message = NotInstalled(Foo)

\* C16: when the report is invalid overall, or no problem tag starts with
\* missing:, invalid: or extraneous: (the list may be absent or empty), the
\* pass leaves the package.json without diagnostics, whatever the flags of
\* the entries.
C16_ShortCircuit ==
    (/\ ev.op = "validated"
     /\ ev.report[1].invalid \/ ~HasProblemTag(ev.report[1])) =>
        diagnostics = <<>>

\* the problems list is empty while foo carries missing = true and is declared:
\* the diagnostics of the pass before are gone and none is published
C16_Witness ==
    /\ ev.op = "validated"
    /\ ~ev.report[1].invalid
    /\ ev.report[1].problems = << <<>> >>
    /\ \E entry \in EntriesOf(ev) : entry.name = Foo /\ entry.missing
    /\ DeclarationsOf(ev.text, Foo) # {}
    /\ ev.before # <<>>
    /\ diagnostics = <<>>

\* C17: after a pass that obtained a report the diagnostics are those of that
\* report and of the text: each one is about a module the report flags, a
\* pass that publishes has one for every flagged module, none of an earlier
\* pass survives, and a second pass on the same text and report gives the
\* same diagnostics.
C17_LatestPassOnly ==
    [][ (ev'.op = "validated") =>
           /\ \A i \in 1..Len(diagnostics') :
                 \E entry \in EntriesOf(ev') :
                    /\ entry.missing \/ entry.invalid \/ entry.extraneous
                    /\ diagnostics'[i].message \in MessagesAbout(entry.name)
                    /\ CountAbout(diagnostics', entry.name) = 1
           /\ (ev'.outcome = "published") =>
                 \A entry \in EntriesOf(ev') :
                    (entry.missing \/ entry.invalid \/ entry.extraneous) =>
                        CountAbout(diagnostics', entry.name) = 1
           /\ (ev.op = "validated" /\ ev.report = ev'.report /\ ev.text = ev'.text) =>
                 diagnostics' = diagnostics ]_vars

\* foo had a not-installed warning; the next report flags nothing any more and
\* the warning is gone
C17_Witness ==
    /\ ev.op = "validated"
    /\ \E i \in 1..Len(ev.before) : ev.before[i].message = NotInstalled(Foo)
    /\ \A entry \in EntriesOf(ev) : ~entry.missing
    /\ diagnostics = <<>>

\* C18: when no report can be obtained the pass is given up without a message
\* and the diagnostics published before stay as they were.
C18_ReporterFailure ==
    [][ (ev'.op = "abandoned") => (diagnostics' = diagnostics /\ ev'.error = <<>>) ]_vars

\* a pass was given up while the package.json has diagnostics
C18_Witness ==
    /\ ev.op = "abandoned"
    /\ diagnostics # <<>>

\* the "name": "range" entries the package.json has under dependencies or devDependencies
DeclaredEntries(manifest) ==
    UNION { { manifest[i].entries[j] : j \in 1..Len(manifest[i].entries) } :
              i \in { k \in 1..Len(manifest) : /\ manifest[k].type = "object"
                                               /\ manifest[k].key \in {<<"dependencies">>,
                                                                       <<"devDependencies">>} } }

\* C19: end to end, from node_modules and the saved package.json to the
\* diagnostics: a warning for every module that is declared but not
\* installed, for every module that was installed by the user and is neither
\* declared nor needed by another module, and for every installed module
\* whose version satisfies no range declared for it.
C19_EndToEnd ==
    (ev.op = "validated" /\ ev.reporter = "raw" /\ ev.text = savedManifest) =>
        LET installed == { nodeModules[i] : i \in 1..Len(nodeModules) }
            declared == DeclaredEntries(savedManifest)
            warned(message) ==
                \E i \in 1..Len(diagnostics) :
                    diagnostics[i].message = message /\ diagnostics[i].severity = "Warning"
        IN  /\ \A e \in declared :
                  (\A m \in installed : m.name # e.name) =>
                      warned(<<"Module '">> \o e.name \o <<"' is not installed">>)
            /\ \A m \in installed :
                  (/\ \A e \in declared : e.name # m.name
                   /\ \E i \in 1..Len(m.requiredBy) : m.requiredBy[i] = <<"#", "USER">>
                   /\ \A i \in 1..Len(m.requiredBy) :
                         m.requiredBy[i] \in {<<"/">>, <<"#", "USER">>})
                      => warned(<<"Module '">> \o m.name \o <<"' is extraneous">>)
            /\ \A m \in installed :
                  (/\ \E e \in declared : e.name = m.name
                   /\ \A e \in declared :
                         e.name = m.name =>
                            ~(\/ m.version = <<"1.0.0">> /\ e.range = <<"^1.0.0">>
                              \/ m.version = <<"2.0.0">> /\ e.range = <<"^2.0.0">>))
                      => warned(<<"Module '">> \o m.name \o <<"' the installed version '">>
                                \o m.version \o <<"' is invalid">>)

----------------------------------------------------------------------------
(* Executing entries *)

\* the catalog entries whose execute() the last handler called, in call order
ExecutedEntries ==
    IF ev.op = "pick"
    THEN IF IsAll(ev.scriptList[ev.choice])
         THEN SelectSeq(ev.scriptList, LAMBDA s : ~IsAll(s))
         ELSE <<ev.scriptList[ev.choice]>>
    ELSE IF ev.op = "rerunLastScript" /\ ev.command = <<>> THEN lastScript
    ELSE IF ThroughPackages /\ ~ev.shown /\ ev.error = <<>> THEN ev.scriptList
    ELSE <<>>

\* C21: executing a script-family entry hands the script name to npm wrapped
\* in double quotes exactly when the name contains white space; a name
\* without white space is handed over as it is.
C21_QuotedScriptName ==
    /\ Len(ev.dispatched) = Len(ExecutedEntries)
    /\ \A i \in 1..Len(ExecutedEntries) :
          LET name == ExecutedEntries[i].scriptName
              args == ev.dispatched[i].args
          IN  ExecutedEntries[i].isScriptCommand =>
                 /\ Len(args) >= 2
                 /\ (\E k \in 1..Len(name) : name[k] = BLANK)
                       => args[2] = <<QUOTE>> \o name \o <<QUOTE>>
                 /\ (\A k \in 1..Len(name) : name[k] # BLANK) => args[2] = name

\* the script `my script` was picked and npm got "my script" in double quotes
C21_Witness ==
    /\ ev.op = "pick"
    /\ ev.scriptList[ev.choice].scriptName = MyScript
    /\ ev.scriptList[ev.choice].isScriptCommand
    /\ ev.dispatched[1].args[2] = <<QUOTE, "my", BLANK, "script", QUOTE>>

\* the array a command handler hands to runNpmCommandInPackages for the family of an entry
FamilyCommand(entry) ==
    IF entry.command[1] = RUN_SCRIPT THEN <<RUN_SCRIPT>>
    ELSE IF entry.command[1] = <<"run">> THEN << <<"run">>, <<"build">> >>
    ELSE <<entry.command[1]>>

\* C22: executing entries never changes the command array the entries of a
\* list share: whatever was executed before (picks, run-all, rerun-last, with
\* or without other entries in between), every call made for an entry has the
\* command of its family, then the script name exactly once for a
\* script-family entry, then `--silent` exactly once when npm.runSilent is set.
C22_CommandNotModified ==
    /\ Len(ev.dispatched) = Len(ExecutedEntries)
    /\ \A i \in 1..Len(ExecutedEntries) :
          LET entry == ExecutedEntries[i]
              name == IF hasWhiteSpace(entry.scriptName)
                      THEN <<QUOTE>> \o entry.scriptName \o <<QUOTE>>
                      ELSE entry.scriptName
          IN  /\ entry.command = FamilyCommand(entry)
              /\ ev.dispatched[i].args
                    = FamilyCommand(entry)
                      \o (IF entry.isScriptCommand THEN <<name>> ELSE <<>>)
                      \o (IF runSilentSetting THEN << <<"--silent">> >> ELSE <<>>)
    /\ lastScript # <<>> => lastScript[1].command = <<RUN_SCRIPT>>

\* with npm.runSilent set, a script was run and then run again by rerun-last,
\* with the same three arguments
C22_Witness ==
    /\ ev.op = "rerunLastScript" /\ ev.command = <<>>
    /\ runSilentSetting
    /\ lastScriptRun # <<>>
    /\ ev.dispatched = lastScriptRun
    /\ Len(ev.dispatched[1].args) = 3
    /\ ev.dispatched[1].args[1] = RUN_SCRIPT
    /\ ev.dispatched[1].args[3] = <<"--silent">>

\* C23: lastScript is written only when a script-family entry begins to
\* execute, and then it is that entry: a fixed-family command (run at once,
\* picked, or run through All), a cancelled quick pick, terminate-script, a
\* process exit and a validation pass leave it as it is, so rerun-last never
\* runs a fixed-family command.
C23_LastScriptSingleWriter ==
    [][ LET executed == ExecutedEntries'
            scripts == SelectSeq(executed, LAMBDA s : s.isScriptCommand)
        IN  /\ scripts # <<>> => lastScript' = <<Last(scripts)>>
            /\ scripts = <<>> => lastScript' = lastScript
            /\ lastScript' # <<>> => lastScript'[1].isScriptCommand
            /\ (ev'.op = "rerunLastScript") =>
                   \A i \in 1..Len(ev'.dispatched) :
                       ev'.dispatched[i].args[1] = RUN_SCRIPT ]_vars

\* after a script was run, All of the test family was picked and ran twice;
\* lastScript is still the script
C23_Witness ==
    /\ ev.op = "pick" /\ IsAll(ev.scriptList[ev.choice])
    /\ Len(ev.dispatched) = 2
    /\ ev.dispatched[1].args = << <<"test">> >>
    /\ lastScript # <<>>
    /\ lastScript[1].isScriptCommand

----------------------------------------------------------------------------
(* The map of running processes *)

\* the map m with the entry of pid left out
Without(m, pid) == [q \in DOMAIN m \ {pid} |-> m[q]]

\* C24: runningProcesses changes only when a process is spawned (the entry
\* of its pid is added) and when a process exits (the entry of its pid is
\* removed): terminate-script, picking a process and signalling it,
\* cancelling a quick pick, building a catalog and validating leave the map
\* as it is, and a cancelled quick pick executes nothing and signals nothing.
C24_MapSingleWriters ==
    [][ /\ (ev'.op = "runCommandInOutputWindow") =>
              /\ ev'.pid \notin DOMAIN runningProcesses
              /\ ev'.pid \in DOMAIN runningProcesses'
              /\ Without(runningProcesses', ev'.pid) = runningProcesses
        /\ (ev'.op = "exit") =>
              /\ ev'.pid \in DOMAIN runningProcesses
              /\ runningProcesses' = Without(runningProcesses, ev'.pid)
        /\ (ev'.op \notin {"runCommandInOutputWindow", "exit"}) =>
              runningProcesses' = runningProcesses
        /\ (ev'.op \in {"cancel", "cancelProcessPick"}) =>
              /\ pendingSaves' = pendingSaves
              /\ lastScript' = lastScript
              /\ ev'.dispatched = <<>>
              /\ ev'.signal = <<>>
              /\ ev'.sent = <<>> ]_vars

\* with two processes running, one of them was picked and signalled, and both
\* are still in the map
C24_Witness ==
    /\ ev.op = "kill" /\ ev.signal = <<"SIGTERM">>
    /\ Cardinality(DOMAIN runningProcesses) = 2
    /\ ev.pid \in DOMAIN runningProcesses

\* C25: the termination signal goes only to a pid that is in
\* runningProcesses when it is sent, whatever process exits happen while the
\* list of processes is shown.
C25_SignalOnlyTracked ==
    (ev.op = "kill") => ev.pid \in DOMAIN runningProcesses

----------------------------------------------------------------------------
(* The messages and anchors of the diagnostics *)

\* the tokens of a message
TokensOf(message) == { message[k] : k \in 1..Len(message) }

\* C26: in a pass that publishes, the diagnostic of a declared module that
\* the report marks invalid (and not missing) names the installed version when
\* the entry carries one; when the entry carries none the message has the
\* generic wording `invalid or has errors` and mentions no version.
C26_InvalidMessage ==
    (ev.op = "validated" /\ ev.outcome = "published") =>
        \A entry \in EntriesOf(ev) :
            (/\ entry.invalid /\ ~entry.missing
             /\ DeclarationsOf(ev.text, entry.name) # {}) =>
                /\ CountAbout(diagnostics, entry.name) = 1
                /\ \A d \in DiagnosticsAbout(diagnostics, entry.name) :
                      IF entry.version # <<>>
                      THEN TokensOf(entry.version[1]) \subseteq TokensOf(d.message)
                      ELSE /\ "invalid or has errors" \in TokensOf(d.message)
                           /\ "' the installed version '" \notin TokensOf(d.message)
                           /\ "undefined" \notin TokensOf(d.message)

\* the top-level properties of the text with the given key
PropertiesNamed(text, key) ==
    LET nodes == parseTree(text)
    IN  { nodes[i] : i \in { k \in 1..Len(nodes) : nodes[k].key.value = key } }

\* the key the extraneous diagnostic is to sit on: dependencies, else
\* devDependencies, else name
AttributeOf(text) ==
    IF PropertiesNamed(text, DependenciesKey) # {} THEN DependenciesKey
    ELSE IF PropertiesNamed(text, DevDependenciesKey) # {} THEN DevDependenciesKey
    ELSE NameKey

NoAttribute(text) ==
    \A key \in {DependenciesKey, DevDependenciesKey, NameKey} : PropertiesNamed(text, key) = {}

\* the pass went on to look at the entries of its report
LooksAtEntries(e) == ~e.report[1].invalid /\ HasProblemTag(e.report[1])

\* C28: when the text has none of dependencies, devDependencies and name, a
\* pass that looks at its entries still publishes, without an error message,
\* and every entry with extraneous = true (neither missing nor invalid) has
\* its diagnostic Module '<name>' is extraneous at the start of the document
\* (offset 0, length 1).
C28_ExtraneousAtDocumentStart ==
    (ev.op = "validated" /\ LooksAtEntries(ev) /\ NoAttribute(ev.text)) =>
        \A entry \in EntriesOf(ev) :
            (entry.extraneous /\ ~entry.missing /\ ~entry.invalid) =>
                /\ ev.outcome = "published"
                /\ ev.error = <<>>
                /\ \E k \in 1..Len(diagnostics) :
                      /\ diagnostics[k].message = Extraneous(entry.name)
                      /\ diagnostics[k].range = [start |-> 0, end |-> 1]

\* the report flags the entry and the text does not declare its module
FlaggedUndeclared(entry, text) ==
    (entry.missing \/ entry.invalid) /\ DeclarationsOf(text, entry.name) = {}

\* C29: a module that the report flags missing or invalid and that the text
\* does not declare under dependencies or devDependencies is skipped: the pass
\* shows no error, publishes, has no diagnostic about that module, and has the
\* not-installed diagnostic of every other module that is missing and declared.
C29_UndeclaredSkipped ==
    (/\ ev.op = "validated" /\ LooksAtEntries(ev)
     /\ \E entry \in EntriesOf(ev) : FlaggedUndeclared(entry, ev.text)) =>
        /\ ev.error = <<>>
        /\ ev.outcome = "published"
        /\ \A entry \in EntriesOf(ev) :
              /\ FlaggedUndeclared(entry, ev.text) => CountAbout(diagnostics, entry.name) = 0
              /\ (entry.missing /\ DeclarationsOf(ev.text, entry.name) # {}) =>
                    \E k \in 1..Len(diagnostics) :
                        diagnostics[k].message = NotInstalled(entry.name)

\* C30: when the package.json is closed while a pass waits for its report,
\* the diagnostics computed from the report that then arrives are not
\* published: the diagnostics of the closed document stay as they were.
C30_ClosedInFlight ==
    (ev.op = "validated" /\ isClosed) =>
        /\ ev.outcome # "published"
        /\ diagnostics = ev.before

----------------------------------------------------------------------------
(* Validation requests *)

\* C31: validation requests are coalesced: a request never starts a pass by
\* itself, a pass starts only from the delayer, when no other pass waits for
\* its report, and takes all the requests made so far with it, so at most one
\* reporter invocation is in flight; the pass works on the text the document
\* has when it publishes.
C31_Debounce ==
    [][ /\ validating' <= 1
        /\ (ev'.op = "validateDocument") => validating' = validating
        /\ (validating' > validating) =>
              /\ validating = 0
              /\ delayer = "scheduled"
              /\ delayer' = "idle"
        /\ (ev'.op = "validated") => ev'.text = document' ]_vars

\* a pass waits for its report and a later request waits in the delayer
C31_Witness ==
    /\ ev.op = "validateDocument"
    /\ validating = 1
    /\ delayer = "scheduled"

----------------------------------------------------------------------------
(* The source ranges *)

\* the top-level property nodes of the text
TopLevelNodes(text) == { parseTree(text)[i] : i \in 1..Len(parseTree(text)) }

\* the one of a set of tokens that comes last in the text
LatestOf(tokens, at(_)) == CHOOSE n \in tokens : \A m \in tokens : at(m) <= at(n)

\* the names declared under dependencies or devDependencies
DeclaredNames(text) ==
    { n.name.value : n \in UNION { EntryNodesOf(b) : b \in DependencyBlocks(text) } }

CompleteTree(text) ==
    /\ rootHasChildren(text)
    /\ \A i \in 1..Len(text) : text[i].type # "truncated"

\* C34: when the text does not parse into a complete tree (no root node, a root
\* node without children, a property without its name and value pair),
\* building the source ranges does not throw and the pass shows no error
C34_IncompleteTreeTolerated ==
    (ev.op = "parseSourceRanges" /\ ~CompleteTree(ev.text)) =>
        /\ ~ev.ranges[1].threw
        /\ ev.error = <<>>

\* a property that has no value is skipped without an error
C34_TruncatedSkipped ==
    (ev.op = "parseSourceRanges" /\ rootHasChildren(ev.text)
        /\ \A i \in 1..Len(ev.text) : ev.text[i].type # "string") =>
        ~ev.ranges[1].threw

----------------------------------------------------------------------------
(* Script discovery for a single workspace root *)

\* the package.json of one of the included directories cannot be read or parsed
SomeManifestFails ==
    \E i \in 1..Len(getIncludedDirectories(rootFolder)) :
        packageJson(fileSystem, getIncludedDirectories(rootFolder)[i]).status # "ok"

\* the scripts of the package.json files of the included directories
ScriptsOfIncluded ==
    LET dirs == getIncludedDirectories(rootFolder)
        scriptsIn(dir) == LET json == packageJson(fileSystem, dir)
                          IN  IF json.status = "ok" /\ json.hasScripts
                              THEN { <<dir, json.scripts[k].key>> : k \in 1..Len(json.scripts) }
                              ELSE {}
    IN  UNION { scriptsIn(dirs[i]) : i \in 1..Len(dirs) }

\* C35: in the discovery for a single workspace root, when the package.json of
\* any included directory cannot be read or parsed, runNpmScript shows a
\* message and gives up the whole list: no quick pick is shown and no script
\* is run, also when directories earlier in the list were read; when every
\* package.json was read and there is no script, the message is that no
\* scripts are defined and no quick pick is shown either.
C35_SingleTargetAborts ==
    /\ SomeManifestFails =>
          /\ quickPick = <<>> /\ pendingSaves = <<>> /\ lastScript = <<>>
          /\ liveProcesses = << >>
          /\ ev.op = "runNpmScript" =>
                /\ ~ev.shown
                /\ \E i \in 1..Len(ev.dirs) :
                      ev.error = <<CannotRead(pathJoin(ev.dirs[i], <<"package.json">>))>>
    /\ (~SomeManifestFails /\ ScriptsOfIncluded = {}) =>
          /\ quickPick = <<>> /\ pendingSaves = <<>> /\ lastScript = <<>>
          /\ liveProcesses = << >>
          /\ ev.op = "runNpmScript" => (~ev.shown /\ ev.error = <<NoScriptsDefined>>)

\* the package.json of the root was read, the one of f1 is not JSON
C35_Witness ==
    /\ ev.op = "runNpmScript"
    /\ ev.dirs = <<RootA, pathJoin(RootA, F1)>>
    /\ packageJson(fileSystem, RootA).status = "ok"
    /\ packageJson(fileSystem, pathJoin(RootA, F1)).status = "malformed"
    /\ ev.error # <<>> /\ ~ev.shown

----------------------------------------------------------------------------
(* The report of readInstalledModulesRaw *)

\* the names declared under dependencies or devDependencies of the package.json
DeclaredNamesOf(manifest) == { e.name : e \in DeclaredEntries(manifest) }

\* the names of the modules under node_modules
InstalledNames(modules) == { modules[i].name : i \in 1..Len(modules) }

Flagged(entry) == entry.missing \/ entry.invalid \/ entry.extraneous

\* the tag of a flagged entry: missing before invalid before extraneous
TagOf(entry) ==
    IF entry.missing THEN MissingTag
    ELSE IF entry.invalid THEN InvalidTag
    ELSE ExtraneousTag

\* C36: in the report of readInstalledModulesRaw a name is flagged missing if
\* and only if it is declared under dependencies or devDependencies and no
\* installed module has that name; an installed module is never missing, is
\* invalid only if it is declared and its version does not satisfy a declared
\* range, and is extraneous only if it is not declared; problems holds one tag
\* for every entry that is flagged (missing before invalid before extraneous)
\* and none for the others, so that the pass stops at the problems list
\* exactly when no entry is flagged.
C36_RawReport ==
    (ev.op = "validated" /\ ev.reporter = "raw") =>
        LET report == ev.report[1]
            entries == report.dependencies
            declared == DeclaredNamesOf(savedManifest)
            installed == InstalledNames(nodeModules)
            flagged == SelectSeq(entries, Flagged)
        IN  /\ \A name \in declared \cup installed :
                  (\E i \in 1..Len(entries) : entries[i].name = name /\ entries[i].missing)
                      <=> (name \in declared /\ name \notin installed)
            /\ \A i \in 1..Len(entries) :
                  entries[i].name \in installed =>
                      /\ ~entries[i].missing
                      /\ entries[i].invalid =>
                            \E d \in DeclaredEntries(savedManifest) :
                                /\ d.name = entries[i].name
                                /\ ~satisfies(entries[i].version[1], d.range)
                      /\ entries[i].extraneous => entries[i].name \notin declared
            /\ report.problems = <<[i \in 1..Len(flagged) |-> TagOf(flagged[i])]>>
            /\ (ev.outcome = "nothing to report") <=> (flagged = <<>>)

----------------------------------------------------------------------------
(* The integrated terminal *)

\* the terminals 'npm' that are open
OpenTerminals == { id \in 1..Len(npmTerminals) : npmTerminals[id] = "open" }

\* C37: at most one terminal 'npm' is open at any time and it is the one that
\* is held; a terminal is created only by a command that finds none held, a
\* command that finds one held sends its lines to that one, the reference is
\* given up only when that terminal was closed, and lines are only ever sent
\* to a terminal that is open.
C37_OneTerminal ==
    [][ /\ Cardinality(OpenTerminals') <= 1
        /\ OpenTerminals' = IF terminal' = 0 THEN {} ELSE {terminal'}
        /\ Len(npmTerminals') > Len(npmTerminals) =>
              /\ terminal = 0 /\ ev'.op = "runCommandInIntegratedTerminal"
              /\ terminal' = Len(npmTerminals')
        /\ (ev'.op = "runCommandInIntegratedTerminal" /\ terminal # 0) =>
              /\ terminal' = terminal /\ npmTerminals' = npmTerminals
        /\ (ev'.op = "runCommandInIntegratedTerminal") =>
              /\ ev'.terminal = terminal' /\ ev'.terminal \in OpenTerminals'
        /\ (terminal # 0 /\ terminal' # terminal) =>
              /\ ev'.op = "onDidCloseTerminal" /\ terminal' = 0
              /\ npmTerminals'[terminal] = "closed" ]_vars

\* a command sends its lines to a second terminal after the first was closed
C37_Witness ==
    /\ ev.op = "runCommandInIntegratedTerminal"
    /\ ev.terminal = 2 /\ terminal = 2
    /\ npmTerminals = <<"closed", "open">>

\* the line cd "<directory>"
CdLine(directory) == <<"cd", BLANK, QUOTE>> \o directory \o <<QUOTE>>

\* the line npm <arguments>
CommandLine(args) == <<"npm", BLANK>> \o joinBlank(args)

\* C38: with npm.runInTerminal set, a step that sends lines to the terminal
\* sends the two lines of one of the commands that waited for
\* workspace.saveAll(), whichever of them comes first: the line cd
\* "<directory>" of that command and right after it its command line, both to
\* the terminal that is held; so the lines of two commands are never
\* interleaved and every command line is preceded by the cd line of its own
\* directory, also for the entries that a run of All dispatched.
C38_LinesNotInterleaved ==
    [][ (ev'.op = "runCommandInIntegratedTerminal") =>
            \E i \in 1..Len(pendingSaves) :
                /\ pendingSaves' = SubSeq(pendingSaves, 1, i - 1)
                                   \o SubSeq(pendingSaves, i + 1, Len(pendingSaves))
                /\ ev'.sent = <<CdLine(pendingSaves[i].cwd),
                                CommandLine(pendingSaves[i].args)>>
                /\ ev'.terminal = terminal' ]_vars

\* All dispatched npm test for the root and for f2; the one for f2 was sent
\* first and the one for the root still waits
C38_Witness ==
    /\ ev.op = "runCommandInIntegratedTerminal"
    /\ ev.sent = <<CdLine(pathJoin(RootA, F2)), CommandLine(<< <<"test">> >>)>>
    /\ Len(pendingSaves) = 1
    /\ pendingSaves[1].cwd = RootA
    /\ pendingSaves[1].args = << <<"test">> >>

\* the quick fix commands dispatch install and uninstall with a module; no
\* other command of this session does
IsQuickFixCall(call) ==
    call.args[1] \in {<<"install">>, <<"uninstall">>} /\ Len(call.args) >= 2

\* C39: what npm-script.installInOutputWindow and
\* npm-script.uninstallInOutputWindow dispatch runs as a child process that is
\* entered in runningProcesses, whatever npm.runInTerminal is, and is never
\* sent to the terminal.
C39_QuickFixInOutputWindow ==
    [][ \A i \in 1..Len(pendingSaves) :
          (IsQuickFixCall(pendingSaves[i]) /\ Len(pendingSaves') < Len(pendingSaves)
               /\ pendingSaves' = SubSeq(pendingSaves, 1, i - 1)
                                  \o SubSeq(pendingSaves, i + 1, Len(pendingSaves))) =>
              /\ ev'.op = "runCommandInOutputWindow"
              /\ ev'.pid \in DOMAIN runningProcesses' \ DOMAIN runningProcesses
              /\ runningProcesses'[ev'.pid] = CommandLine(pendingSaves[i].args)
              /\ npmTerminals' = npmTerminals ]_vars
====
